---- MODULE Spec2Model ----
(***************************************************************************)
(* A model of gitmind's multi-commit splitter                              *)
(* (internal/splitter/multicommit.go).                                     *)
(*                                                                         *)
(* Part I models MultiCommitManager.ExecuteMultiCommit and the git         *)
(* commands it runs.  The repository is the record `repo`; every git       *)
(* command that changes it is an operator on that record, and every call   *)
(* of such a command is one action that either succeeds (the operator is   *)
(* applied) or fails (the repository is left as it was and the code's      *)
(* error path is taken).                                                   *)
(*                                                                         *)
(* Each file of the work tree has one pending change.  A file is in a      *)
(* tree (commit, index, work tree) when that tree holds the changed        *)
(* content of the file, and out of it when it holds the original content.  *)
(***************************************************************************)
EXTENDS Integers, Sequences, FiniteSets, TLC

VARIABLES
    proposals,      \* the []CommitProposal argument: each proposal is its Files
    promptUser,     \* config.MultiCommit.PromptUser
    deletions,      \* files whose pending change deletes the file
    staged0,        \* the files staged when ExecuteMultiCommit was called
    repo,           \* the git repository (branch, index, work tree, stash, notes)
    pc,             \* position in ExecuteMultiCommit and its callees
    cur,            \* i+1 of the loop at line 101; 0 before the loop
    aborting,       \* TRUE inside the restoreChanges call of line 104
    ret,            \* the error returned by the callee that just returned
    cause,          \* the error createCommit returned (err of line 102)
    todo,           \* files of the proposal still to be staged (loop of line 309)
    tempCommitHash, \* local of stashUsingTempBranch
    response,       \* the line read by promptUserForConfirmation
    result,         \* outcome of ExecuteMultiCommit
    err,            \* the error ExecuteMultiCommit returns
    restores,       \* restoreChanges calls made since createCommit failed
    skipped,        \* proposals skipped at line 321
    faults,         \* git commands that failed although they could have succeeded
    changes,        \* the []Change argument of ClusterChanges
    multiCommit,    \* config.MultiCommit: Enabled, MaxClusters, SimilarityThreshold
    similarities,   \* the matrix calculateSimilarities returns
    clusters,       \* the clusters built so far
    used,           \* used[i] of performClustering
    seed,           \* i of the loop at line 697
    merges,         \* iterations of the loop at line 824 so far
    cpc,            \* position in ClusterChanges
    sections,       \* the staged changes, as the sections of git diff --cached
    diff,           \* the text getStagedDiff returned
    ppc             \* position in ProcessStagedChanges

vars == <<proposals, promptUser, deletions, staged0, repo, pc, cur, aborting,
          ret, cause, todo, tempCommitHash, response, result, err, restores,
          skipped, faults, changes, multiCommit, similarities, clusters, used,
          seed, merges, cpc, sections, diff, ppc>>

(***************************************************************************)
(* Bounds.                                                                 *)
(***************************************************************************)
NumFiles == 3
MaxProposals == 3
MaxProposalFiles == 2
MaxFaults == 2
MaxChanges == 3
MaxClusterCap == 3
MaxSections == 2

Files == 1..NumFiles

(***************************************************************************)
(* Errors are the chain of messages fmt.Errorf builds; nil is <<>>.        *)
(***************************************************************************)
Nil == <<>>
Errorf(msg, e) == <<msg>> \o e
ExecError(cmd) == <<cmd>>

(***************************************************************************)
(* The repository.                                                         *)
(*   objects  every commit created so far, a commit's id is its position   *)
(*   branch   the ids of the commits on the current branch, oldest first,  *)
(*            above the commit the branch pointed to at the start (id 0)   *)
(*   index    files whose staged content is the changed content            *)
(*   wt       files whose work-tree content is the changed content         *)
(*   stash    the stash entries, newest first                              *)
(*   notes    the notes, each on one commit                                *)
(***************************************************************************)
StashMessage == "gitmind-multi-commit-temp"
NotePrefix == "gitmind-temp-commit:"

HeadId(r) == IF r.branch = <<>> THEN 0 ELSE r.branch[Len(r.branch)]

\* files whose content in the HEAD commit is the changed content
HeadTree(r) == UNION {r.objects[r.branch[i]].files : i \in 1..Len(r.branch)}

\* git diff --cached: the files whose index content differs from HEAD
StagedFiles(r) == (r.index \ HeadTree(r)) \cup (HeadTree(r) \ r.index)

\* git diff --cached --quiet exits 0 (err == nil) when nothing is staged
DiffCachedQuiet(r) == StagedFiles(r) = {}

\* git stash push --staged --message gitmind-multi-commit-temp: the staged
\* changes leave the index and the work tree for a new stash entry.  With
\* nothing staged git exits 1 ("No staged changes") when the work tree holds
\* changes and exits 0, saving nothing, when it holds none.
GitStashPushPossible(r) == StagedFiles(r) # {} \/ r.wt = HeadTree(r)
GitStashPushStaged(r) ==
    IF StagedFiles(r) = {} THEN r
    ELSE [r EXCEPT !.stash = <<[message |-> StashMessage, files |-> StagedFiles(r)]>> \o @,
                   !.index = HeadTree(r),
                   !.wt = @ \ StagedFiles(r)]

\* git stash list | contains "gitmind-multi-commit-temp"
StashListContains(r) == \E i \in 1..Len(r.stash) : r.stash[i].message = StashMessage

\* a variant that drops the newest entry without applying it (git stash drop)
GitStashDrop(r) == [r EXCEPT !.stash = Tail(@)]

\* git stash pop: applies the newest entry to the work tree and drops it
GitStashPop(r) ==
    [r EXCEPT !.wt = @ \cup r.stash[1].files,
              !.stash = Tail(@)]

\* git commit -m <message>: a new commit of the index on top of HEAD;
\* git refuses to commit when nothing is staged
GitCommitPossible(r) == StagedFiles(r) # {}
GitCommit(r, proposal) ==
    [r EXCEPT !.objects = Append(@, [files |-> StagedFiles(r), proposal |-> proposal]),
              !.branch = Append(@, Len(r.objects) + 1)]

\* git rev-parse HEAD
GitRevParseHead(r) == HeadId(r)

\* git reset --soft HEAD~1: moves the branch back, keeps index and work tree
GitResetSoftParent(r) ==
    [r EXCEPT !.branch = SubSeq(@, 1, Len(@) - 1)]

\* git notes add -m gitmind-temp-commit:<hash> HEAD;
\* git refuses to overwrite a note
GitNotesAddPossible(r) == {n \in r.notes : n.on = HeadId(r)} = {}
GitNotesAdd(r, hash) ==
    [r EXCEPT !.notes = @ \cup {[on |-> HeadId(r), prefix |-> NotePrefix, hash |-> hash]}]

\* git notes show HEAD
GitNotesShowHead(r) == {n \in r.notes : n.on = HeadId(r)}

NotesShowContains(r) == \E n \in GitNotesShowHead(r) : n.prefix = NotePrefix

\* a variant without -n: the applied change is committed at once
GitCherryPick(r, hash) ==
    [r EXCEPT !.index = @ \cup r.objects[hash].files,
              !.wt = @ \cup r.objects[hash].files,
              !.objects = Append(@, [files |-> r.objects[hash].files, proposal |-> 0]),
              !.branch = Append(@, Len(r.objects) + 1)]

\* git cherry-pick -n <hash>: applies the commit's change to index and work tree
GitCherryPickN(r, hash) ==
    [r EXCEPT !.index = @ \cup r.objects[hash].files,
              !.wt = @ \cup r.objects[hash].files]

\* git notes remove HEAD
GitNotesRemoveHead(r) ==
    [r EXCEPT !.notes = @ \ GitNotesShowHead(r)]

\* git reset: the index becomes HEAD, the work tree is untouched
GitReset(r) == [r EXCEPT !.index = HeadTree(r)]

\* os.Stat(file): the file is on disk unless its deletion is in the work tree
FileExists(r, file) == ~(file \in deletions /\ file \in r.wt)

\* a variant that stages every change of the work tree (git add -A)
GitAddAll(r, file) == [r EXCEPT !.index = r.wt]

\* git add <file>: the index takes the work tree's content of the file
GitAdd(r, file) ==
    [r EXCEPT !.index = (@ \ {file}) \cup ({file} \cap r.wt)]

\* git rm <file> of a file absent on disk: stages the deletion;
\* it fails when the index does not hold the file any more
GitRmPossible(r, file) == file \notin r.index
GitRm(r, file) == [r EXCEPT !.index = @ \cup {file}]

(***************************************************************************)
(* promptUserForConfirmation (line 171).  A line is the sequence of its    *)
(* characters, the final newline included.                                 *)
(***************************************************************************)
Upper == <<"A", "B", "C", "D", "E", "F", "G", "H", "I", "J", "K", "L", "M",
           "N", "O", "P", "Q", "R", "S", "T", "U", "V", "W", "X", "Y", "Z">>
Lower == <<"a", "b", "c", "d", "e", "f", "g", "h", "i", "j", "k", "l", "m",
           "n", "o", "p", "q", "r", "s", "t", "u", "v", "w", "x", "y", "z">>

ToLowerChar(c) ==
    IF \E i \in DOMAIN Upper : Upper[i] = c
    THEN Lower[CHOOSE i \in DOMAIN Upper : Upper[i] = c]
    ELSE c

\* strings.ToLower
ToLower(s) == [i \in 1..Len(s) |-> ToLowerChar(s[i])]

IsSpace(c) == c \in {" ", "\n", "\t", "\r"}

RECURSIVE TrimLeft(_)
TrimLeft(s) == IF s # <<>> /\ IsSpace(s[1]) THEN TrimLeft(Tail(s)) ELSE s

RECURSIVE TrimRight(_)
TrimRight(s) ==
    IF s # <<>> /\ IsSpace(s[Len(s)]) THEN TrimRight(SubSeq(s, 1, Len(s) - 1)) ELSE s

\* strings.TrimSpace
TrimSpace(s) == TrimRight(TrimLeft(s))

\* a variant that takes only an explicit yes
ConfirmedExplicitly(line) ==
    LET r == TrimSpace(ToLower(line))
    IN  r = <<"y">> \/ r = <<"y", "e", "s">>

\* line 188-189
Confirmed(line) ==
    LET r == TrimSpace(ToLower(line))
    IN  r = <<>> \/ r = <<"y">> \/ r = <<"y", "e", "s">>

\* the lines the user may type; EOF before a newline makes ReadString fail
Lines ==
    { <<"\n">>, <<"y", "\n">>, <<"Y", "\n">>, <<"y", "e", "s", "\n">>,
      <<"Y", "E", "S", "\n">>, <<" ", "y", " ", "\n">>, <<" ", "\n">>,
      <<"n", "\n">>, <<"N", "O", "\n">>, <<"y", "e", "\n">>, <<"o", "k", "\n">> }
NoLine == <<"EOF">>

(***************************************************************************)
(* The initial states: the proposals ProcessStagedChanges returns name     *)
(* pairwise disjoint sets of staged files; further files may be staged     *)
(* that no proposal names (files without a parsed hunk).                   *)
(***************************************************************************)
FileSets == {s \in SUBSET Files : s # {} /\ Cardinality(s) <= MaxProposalFiles}

ProposalLists ==
    UNION {[1..n -> FileSets] : n \in 1..MaxProposals}

PairwiseDisjoint(ps) ==
    \A i, j \in 1..Len(ps) : i # j => ps[i] \cap ps[j] = {}

AllFiles(ps) == UNION {ps[i] : i \in 1..Len(ps)}

InitRepo(staged) ==
    [objects |-> <<>>, branch |-> <<>>, index |-> staged, wt |-> staged,
     stash |-> <<>>, notes |-> {}]

\* the variables of ClusterChanges, which a run of ExecuteMultiCommit leaves alone
clustering == <<changes, multiCommit, similarities, clusters, used, seed, merges, cpc>>

\* the variables of ProcessStagedChanges
processing == <<sections, diff, ppc>>

ProcessingIdle ==
    /\ sections = <<>>
    /\ diff = <<>>
    /\ ppc = "off"

ClusteringIdle ==
    /\ changes = <<>>
    /\ multiCommit = [Enabled |-> FALSE, MaxClusters |-> 3, SimilarityThreshold |-> <<7, 10>>]
    /\ similarities = <<>>
    /\ clusters = <<>>
    /\ used = <<>>
    /\ seed = 0
    /\ merges = 0
    /\ cpc = "off"

Init ==
    /\ ClusteringIdle
    /\ ProcessingIdle
    /\ proposals \in {ps \in ProposalLists : PairwiseDisjoint(ps)}
    /\ promptUser \in BOOLEAN
    /\ staged0 \in {s \in SUBSET Files : AllFiles(proposals) \subseteq s}
    /\ deletions \in SUBSET staged0
    /\ repo = InitRepo(staged0)
    /\ pc = "start"
    /\ cur = 0
    /\ aborting = FALSE
    /\ ret = Nil
    /\ cause = Nil
    /\ todo = {}
    /\ tempCommitHash = 0
    /\ response = <<>>
    /\ result = "running"
    /\ err = Nil
    /\ restores = 0
    /\ skipped = {}
    /\ faults = 0

inputs == <<proposals, promptUser, deletions, staged0, clustering, processing>>
locals == <<todo, tempCommitHash, response>>
history == <<restores, skipped>>

(***************************************************************************)
(* A git command fails either because it cannot succeed in the current     *)
(* repository (git refuses it), or because of a fault of the environment;  *)
(* at most MaxFaults faults are injected in one run.                       *)
(***************************************************************************)
NoFault == faults' = faults
Fails(possible) ==
    /\ possible => faults < MaxFaults
    /\ faults' = IF possible THEN faults + 1 ELSE faults

(***************************************************************************)
(* ExecuteMultiCommit (line 77).                                           *)
(***************************************************************************)
\* line 78-81: a single proposal is left to the normal commit process
ReturnSingle ==
    /\ pc = "start"
    /\ NoFault
    /\ Len(proposals) <= 1
    /\ pc' = "done"
    /\ result' = "ok"
    /\ UNCHANGED <<inputs, locals, history, repo, cur, aborting, ret, cause, err>>

\* line 84 and 96: prompt when enabled, else go on to stashCurrentChanges
Begin ==
    /\ pc = "start"
    /\ NoFault
    /\ Len(proposals) > 1
    /\ pc' = IF promptUser THEN "prompt" ELSE "stash"
    /\ UNCHANGED <<inputs, locals, history, repo, cur, aborting, ret, cause, err, result>>

\* line 182-186: the line is read; reading fails at end of input
ReadLine ==
    /\ pc = "prompt"
    /\ NoFault
    /\ \E line \in Lines \cup {NoLine} : response' = line
    /\ pc' = "prompt_ret"
    /\ UNCHANGED <<inputs, todo, tempCommitHash, history, repo, cur, aborting, ret,
                   cause, err, result>>

\* line 86-88: the read error is returned
PromptError ==
    /\ pc = "prompt_ret"
    /\ NoFault
    /\ response = NoLine
    /\ pc' = "done"
    /\ result' = "error"
    /\ err' = ExecError("read")
    /\ response' = <<>>
    /\ UNCHANGED <<inputs, todo, tempCommitHash, history, repo, cur, aborting, ret, cause>>

\* line 89-92
PromptRejected ==
    /\ pc = "prompt_ret"
    /\ NoFault
    /\ response # NoLine
    /\ ~Confirmed(response)
    /\ pc' = "done"
    /\ result' = "cancelled"
    /\ response' = <<>>
    /\ UNCHANGED <<inputs, todo, tempCommitHash, history, repo, cur, aborting, ret,
                   cause, err>>

\* line 93-96
PromptAccepted ==
    /\ pc = "prompt_ret"
    /\ NoFault
    /\ response # NoLine
    /\ Confirmed(response)
    /\ pc' = "stash"
    /\ response' = <<>>
    /\ UNCHANGED <<inputs, todo, tempCommitHash, history, repo, cur, aborting, ret,
                   cause, err, result>>

(***************************************************************************)
(* stashCurrentChanges (line 193) and stashUsingTempBranch (line 215).     *)
(* It is called at line 96 (cur = 0) and at line 334 (cur > 0).            *)
(***************************************************************************)
ctl == <<cur, aborting, cause, err, result>>

\* line 195-199: git diff --cached --quiet exits 0, nothing to stash
StashNothingStaged ==
    /\ pc = "stash"
    /\ DiffCachedQuiet(repo)
    /\ NoFault
    /\ pc' = "stash_ret"
    /\ ret' = Nil
    /\ UNCHANGED <<inputs, locals, history, repo, ctl>>

\* line 196: git diff --cached --quiet reports staged changes
StashCheck ==
    /\ pc = "stash"
    /\ ~DiffCachedQuiet(repo)
    /\ NoFault
    /\ pc' = "stash_push"
    /\ UNCHANGED <<inputs, locals, history, repo, ctl, ret>>

\* line 196: git diff --cached --quiet fails, which the code reads as
\* "there are staged changes"
StashCheckFails ==
    /\ pc = "stash"
    /\ DiffCachedQuiet(repo)
    /\ Fails(TRUE)
    /\ pc' = "stash_push"
    /\ UNCHANGED <<inputs, locals, history, repo, ctl, ret>>

\* line 202-211: git stash push --staged succeeds
StashPush ==
    /\ pc = "stash_push"
    /\ GitStashPushPossible(repo)
    /\ NoFault
    /\ repo' = GitStashPushStaged(repo)
    /\ pc' = "stash_ret"
    /\ ret' = Nil
    /\ UNCHANGED <<inputs, locals, history, ctl>>

\* line 204-207: git stash push fails, the temporary commit is tried
StashPushFails ==
    /\ pc = "stash_push"
    /\ Fails(GitStashPushPossible(repo))
    /\ pc' = "temp_commit"
    /\ UNCHANGED <<inputs, locals, history, repo, ctl, ret>>

\* line 217: git commit of the staged changes
TempCommit ==
    /\ pc = "temp_commit"
    /\ GitCommitPossible(repo)
    /\ NoFault
    /\ repo' = GitCommit(repo, 0)
    /\ pc' = "temp_revparse"
    /\ UNCHANGED <<inputs, locals, history, ctl, ret>>

\* line 218-220
TempCommitFails ==
    /\ pc = "temp_commit"
    /\ Fails(GitCommitPossible(repo))
    /\ pc' = "stash_ret"
    /\ ret' = Errorf("failed to create temp commit", ExecError("git commit"))
    /\ UNCHANGED <<inputs, locals, history, repo, ctl>>

\* line 223-224: git rev-parse HEAD
TempRevParse ==
    /\ pc = "temp_revparse"
    /\ NoFault
    /\ tempCommitHash' = GitRevParseHead(repo)
    /\ pc' = "temp_reset"
    /\ UNCHANGED <<inputs, todo, response, history, repo, ctl, ret>>

\* line 225-227
TempRevParseFails ==
    /\ pc = "temp_revparse"
    /\ Fails(TRUE)
    /\ pc' = "stash_ret"
    /\ ret' = Errorf("failed to get temp commit hash", ExecError("git rev-parse"))
    /\ UNCHANGED <<inputs, locals, history, repo, ctl>>

\* line 230: git reset --soft HEAD~1
TempResetSoft ==
    /\ pc = "temp_reset"
    /\ NoFault
    /\ repo' = GitResetSoftParent(repo)
    /\ pc' = "temp_notes"
    /\ UNCHANGED <<inputs, locals, history, ctl, ret>>

\* line 231-233
TempResetSoftFails ==
    /\ pc = "temp_reset"
    /\ Fails(TRUE)
    /\ pc' = "stash_ret"
    /\ ret' = Errorf("failed to reset to clear staging", ExecError("git reset --soft"))
    /\ tempCommitHash' = 0
    /\ UNCHANGED <<inputs, todo, response, history, repo, ctl>>

\* line 237-241: git notes add on HEAD
TempNotesAdd ==
    /\ pc = "temp_notes"
    /\ GitNotesAddPossible(repo)
    /\ NoFault
    /\ repo' = GitNotesAdd(repo, tempCommitHash)
    /\ pc' = "stash_ret"
    /\ ret' = Nil
    /\ tempCommitHash' = 0
    /\ UNCHANGED <<inputs, todo, response, history, ctl>>

\* line 239: the error of git notes add is ignored
TempNotesAddFails ==
    /\ pc = "temp_notes"
    /\ Fails(GitNotesAddPossible(repo))
    /\ pc' = "stash_ret"
    /\ ret' = Nil
    /\ tempCommitHash' = 0
    /\ UNCHANGED <<inputs, todo, response, history, repo, ctl>>

\* line 96-98: the first stash failed, ExecuteMultiCommit returns the error
StashFailed ==
    /\ pc = "stash_ret"
    /\ cur = 0
    /\ ret # Nil
    /\ NoFault
    /\ pc' = "done"
    /\ result' = "error"
    /\ err' = Errorf("failed to stash changes", ret)
    /\ ret' = Nil
    /\ UNCHANGED <<inputs, locals, history, repo, cur, aborting, cause>>

\* a variant in which createCommit begins by stashing
CreateCommitEntryStash == "stash"

\* line 297-298: createCommit begins with a call of restoreChanges
CreateCommitEntry == "restore"

\* line 101-102: the loop starts with createCommit(proposals[0], 1, n)
LoopStart ==
    /\ pc = "stash_ret"
    /\ cur = 0
    /\ ret = Nil
    /\ NoFault
    /\ cur' = 1
    /\ pc' = CreateCommitEntry
    /\ UNCHANGED <<inputs, locals, history, repo, aborting, cause, err, result, ret>>

\* line 334-339: createCommit returns nil when the second stash succeeded
Restashed ==
    /\ pc = "stash_ret"
    /\ cur > 0
    /\ ret = Nil
    /\ NoFault
    /\ pc' = "create_ret"
    /\ UNCHANGED <<inputs, locals, history, repo, ctl, ret>>

\* line 334-336
RestashFailed ==
    /\ pc = "stash_ret"
    /\ cur > 0
    /\ ret # Nil
    /\ NoFault
    /\ pc' = "create_ret"
    /\ ret' = Errorf("failed to stash remaining changes", ret)
    /\ UNCHANGED <<inputs, locals, history, repo, ctl>>

(***************************************************************************)
(* restoreChanges (line 245) and restoreFromTempBranch (line 267).  It is  *)
(* called at line 298 (aborting = FALSE) and at line 104 (aborting = TRUE).*)
(***************************************************************************)
\* line 256-263: what the note on HEAD selects
NotesAction(r) == IF NotesShowContains(r) THEN "cherry_pick" ELSE "restore_ret"

\* line 247-263: what the stash list and the note on HEAD select
RestoreAction(r) == IF StashListContains(r) THEN "stash_pop" ELSE NotesAction(r)

Called == restores' = IF aborting THEN restores + 1 ELSE restores

RestoreChanges ==
    /\ pc = "restore"
    /\ NoFault
    /\ pc' = RestoreAction(repo)
    /\ Called
    /\ UNCHANGED <<inputs, locals, skipped, repo, ctl, ret>>

\* line 249: git stash list fails, the stash is not looked at
StashListFails ==
    /\ pc = "restore"
    /\ Fails(TRUE)
    /\ pc' = NotesAction(repo)
    /\ Called
    /\ UNCHANGED <<inputs, locals, skipped, repo, ctl, ret>>

\* line 258: git notes show fails, nothing is restored
NotesShowFails ==
    /\ pc = "restore"
    /\ ~StashListContains(repo)
    /\ Fails(TRUE)
    /\ pc' = "restore_ret"
    /\ Called
    /\ UNCHANGED <<inputs, locals, skipped, repo, ctl, ret>>

\* line 251-252: git stash pop
StashPop ==
    /\ pc = "stash_pop"
    /\ NoFault
    /\ repo' = GitStashPop(repo)
    /\ pc' = "restore_ret"
    /\ UNCHANGED <<inputs, locals, history, ctl, ret>>

StashPopFails ==
    /\ pc = "stash_pop"
    /\ Fails(TRUE)
    /\ pc' = "restore_ret"
    /\ ret' = ExecError("git stash pop")
    /\ UNCHANGED <<inputs, locals, history, repo, ctl>>

\* line 269-273: restoreFromTempBranch reads the note again
TempNotesShowFails ==
    /\ pc = "cherry_pick"
    /\ Fails(TRUE)
    /\ pc' = "restore_ret"
    /\ ret' = Errorf("no temp commit found in notes", ExecError("git notes show"))
    /\ UNCHANGED <<inputs, locals, history, repo, ctl>>

\* line 275-286: the hash is taken from the note, git cherry-pick -n
\* (a note written at line 238 always starts with the prefix of line 276)
CherryPick ==
    /\ pc = "cherry_pick"
    /\ NoFault
    /\ \E n \in GitNotesShowHead(repo) :
          /\ n.prefix = NotePrefix
          /\ repo' = GitCherryPickN(repo, n.hash)
    /\ pc' = "notes_remove"
    /\ UNCHANGED <<inputs, locals, history, ctl, ret>>

\* line 284-286
CherryPickFails ==
    /\ pc = "cherry_pick"
    /\ Fails(TRUE)
    /\ pc' = "restore_ret"
    /\ ret' = Errorf("failed to cherry-pick temp commit", ExecError("git cherry-pick"))
    /\ UNCHANGED <<inputs, locals, history, repo, ctl>>

\* line 289-292: git notes remove HEAD
NotesRemove ==
    /\ pc = "notes_remove"
    /\ NoFault
    /\ repo' = GitNotesRemoveHead(repo)
    /\ pc' = "restore_ret"
    /\ UNCHANGED <<inputs, locals, history, ctl, ret>>

\* line 290: the error of git notes remove is ignored
NotesRemoveFails ==
    /\ pc = "notes_remove"
    /\ Fails(TRUE)
    /\ pc' = "restore_ret"
    /\ UNCHANGED <<inputs, locals, history, repo, ctl, ret>>

(***************************************************************************)
(* createCommit (line 296) and stageFile (line 343).                       *)
(***************************************************************************)
\* line 298-300
RestoreFailed ==
    /\ pc = "restore_ret"
    /\ ~aborting
    /\ ret # Nil
    /\ NoFault
    /\ pc' = "create_ret"
    /\ ret' = Errorf("failed to restore changes", ret)
    /\ UNCHANGED <<inputs, locals, history, repo, ctl>>

\* line 303: git reset
ResetIndex ==
    /\ pc = "restore_ret"
    /\ ~aborting
    /\ ret = Nil
    /\ NoFault
    /\ repo' = GitReset(repo)
    /\ pc' = "stage"
    /\ todo' = proposals[cur]
    /\ UNCHANGED <<inputs, tempCommitHash, response, history, ctl, ret>>

\* line 304-306
ResetIndexFails ==
    /\ pc = "restore_ret"
    /\ ~aborting
    /\ ret = Nil
    /\ Fails(TRUE)
    /\ pc' = "create_ret"
    /\ ret' = Errorf("failed to reset staging area", ExecError("git reset"))
    /\ UNCHANGED <<inputs, locals, history, repo, ctl>>

\* the next file of the loop at line 309
NextFile == CHOOSE f \in todo : \A g \in todo : f <= g

\* line 356-357: the file is on disk, git add
StageAdd ==
    /\ pc = "stage"
    /\ todo # {}
    /\ FileExists(repo, NextFile)
    /\ NoFault
    /\ repo' = GitAdd(repo, NextFile)
    /\ todo' = todo \ {NextFile}
    /\ UNCHANGED <<inputs, tempCommitHash, response, history, ctl, ret, pc>>

\* line 345-352: the file is not on disk, git rm
StageRm ==
    /\ pc = "stage"
    /\ todo # {}
    /\ ~FileExists(repo, NextFile)
    /\ GitRmPossible(repo, NextFile)
    /\ NoFault
    /\ repo' = GitRm(repo, NextFile)
    /\ todo' = todo \ {NextFile}
    /\ UNCHANGED <<inputs, tempCommitHash, response, history, ctl, ret, pc>>

\* a variant of line 310-314 that returns the error of stageFile
StageFailsAborts ==
    /\ pc = "stage"
    /\ todo # {}
    /\ Fails(FileExists(repo, NextFile) \/ GitRmPossible(repo, NextFile))
    /\ pc' = "create_ret"
    /\ ret' = Errorf("failed to stage file", ExecError("git add"))
    /\ UNCHANGED <<inputs, locals, history, repo, ctl>>

\* line 310-314: stageFile failed, the file is skipped with a warning
StageFails ==
    /\ pc = "stage"
    /\ todo # {}
    /\ Fails(FileExists(repo, NextFile) \/ GitRmPossible(repo, NextFile))
    /\ todo' = todo \ {NextFile}
    /\ UNCHANGED <<inputs, tempCommitHash, response, history, repo, ctl, ret, pc>>

\* a variant without the check: the commit is always attempted
NothingStagedUnchecked(r) == FALSE

\* line 318-319: the check that decides whether the proposal is skipped
NothingStaged(r) == DiffCachedQuiet(r)

\* line 318-322: nothing is staged, the proposal is skipped
CommitSkipped ==
    /\ pc = "stage"
    /\ todo = {}
    /\ NothingStaged(repo)
    /\ NoFault
    /\ skipped' = skipped \cup {cur}
    /\ pc' = "create_ret"
    /\ UNCHANGED <<inputs, locals, restores, repo, ctl, ret>>

\* line 319: changes are staged
CommitCheck ==
    /\ pc = "stage"
    /\ todo = {}
    /\ ~NothingStaged(repo)
    /\ NoFault
    /\ pc' = "commit"
    /\ UNCHANGED <<inputs, locals, history, repo, ctl, ret>>

\* line 319: git diff --cached --quiet fails, which the code reads as
\* "there are staged changes"
CommitCheckFails ==
    /\ pc = "stage"
    /\ todo = {}
    /\ NothingStaged(repo)
    /\ Fails(TRUE)
    /\ pc' = "commit"
    /\ UNCHANGED <<inputs, locals, history, repo, ctl, ret>>

\* line 325-337: git commit, then the remaining changes are stashed again
Commit ==
    /\ pc = "commit"
    /\ GitCommitPossible(repo)
    /\ NoFault
    /\ repo' = GitCommit(repo, cur)
    /\ pc' = IF cur < Len(proposals) THEN "stash" ELSE "create_ret"
    /\ UNCHANGED <<inputs, locals, history, ctl, ret>>

\* line 326-328
CommitFails ==
    /\ pc = "commit"
    /\ Fails(GitCommitPossible(repo))
    /\ pc' = "create_ret"
    /\ ret' = Errorf("git commit failed", ExecError("git commit"))
    /\ UNCHANGED <<inputs, locals, history, repo, ctl>>

(***************************************************************************)
(* The loop of ExecuteMultiCommit (line 101-110).                          *)
(***************************************************************************)
\* line 101-102: the next createCommit
NextProposal ==
    /\ pc = "create_ret"
    /\ ret = Nil
    /\ cur < Len(proposals)
    /\ NoFault
    /\ cur' = cur + 1
    /\ pc' = CreateCommitEntry
    /\ UNCHANGED <<inputs, locals, history, repo, aborting, cause, err, result, ret>>

\* line 109-110
Finish ==
    /\ pc = "create_ret"
    /\ ret = Nil
    /\ cur = Len(proposals)
    /\ NoFault
    /\ pc' = "done"
    /\ result' = "ok"
    /\ UNCHANGED <<inputs, locals, history, repo, cur, aborting, cause, err, ret>>

\* a variant that returns the error without calling restoreChanges
AbortStepSkipsRestore == "restore_ret"

\* line 104: where ExecuteMultiCommit goes when createCommit has failed:
\* to a call of restoreChanges
AbortStep == "restore"

\* line 102-104: createCommit failed
CreateCommitFailed ==
    /\ pc = "create_ret"
    /\ ret # Nil
    /\ NoFault
    /\ aborting' = TRUE
    /\ cause' = ret
    /\ pc' = AbortStep
    /\ ret' = Nil
    /\ UNCHANGED <<inputs, locals, history, repo, cur, err, result>>

\* line 105: "failed to create commit %d: %v", i+1, err
CommitError(index, e) == Errorf("failed to create commit", Errorf(ToString(index), e))

\* line 104-105: whatever restoreChanges returned, the error of createCommit
\* is returned with the proposal's index
ReturnError ==
    /\ pc = "restore_ret"
    /\ aborting
    /\ NoFault
    /\ pc' = "done"
    /\ result' = "error"
    /\ err' = CommitError(cur, cause)
    /\ ret' = Nil
    /\ UNCHANGED <<inputs, locals, history, repo, cur, aborting, cause>>

(***************************************************************************)
(* The steps in which no git command fails, the steps in which one does.   *)
(***************************************************************************)
Step ==
    \/ ReturnSingle \/ Begin \/ ReadLine \/ PromptError \/ PromptRejected
    \/ PromptAccepted
    \/ StashNothingStaged \/ StashCheck \/ StashPush
    \/ TempCommit \/ TempRevParse \/ TempResetSoft \/ TempNotesAdd
    \/ StashFailed \/ LoopStart \/ Restashed \/ RestashFailed
    \/ RestoreChanges \/ StashPop \/ CherryPick \/ NotesRemove
    \/ RestoreFailed \/ ResetIndex \/ StageAdd \/ StageRm
    \/ CommitSkipped \/ CommitCheck \/ Commit
    \/ NextProposal \/ Finish \/ CreateCommitFailed \/ ReturnError

Failure ==
    \/ StashCheckFails \/ StashPushFails
    \/ TempCommitFails \/ TempRevParseFails \/ TempResetSoftFails \/ TempNotesAddFails
    \/ StashListFails \/ NotesShowFails \/ StashPopFails
    \/ TempNotesShowFails \/ CherryPickFails \/ NotesRemoveFails
    \/ ResetIndexFails \/ StageFails \/ CommitCheckFails \/ CommitFails

Next == Step \/ Failure

Spec == Init /\ [][Next]_vars

(***************************************************************************)
(* Part II models Splitter.ClusterChanges (line 504): the similarity of    *)
(* two Changes, the greedy clustering and the merge-down to MaxClusters.   *)
(*                                                                         *)
(* A string is the sequence of its characters.  A float64 score is the     *)
(* exact fraction <<numerator, denominator>> in lowest terms with a        *)
(* positive denominator; the rounding of float64 arithmetic is not         *)
(* modelled (for the Changes and thresholds used here the comparison of    *)
(* line 710 comes out the same in float64 as in exact fractions).          *)
(***************************************************************************)
RECURSIVE GCD(_, _)
GCD(a, b) == IF b = 0 THEN a ELSE GCD(b, a % b)

Float(n, d) ==
    LET g == GCD(IF n < 0 THEN -n ELSE n, d)
    IN  <<n \div g, d \div g>>

FloatAdd(a, b) == Float(a[1] * b[2] + b[1] * a[2], a[2] * b[2])
FloatMul(a, b) == Float(a[1] * b[1], a[2] * b[2])
\* a / 2
FloatHalf(a) == Float(a[1], a[2] * 2)
\* a >= b
FloatGeq(a, b) == a[1] * b[2] >= b[1] * a[2]

\* line 894
max(a, b) == IF a > b THEN a ELSE b

\* strings.HasPrefix, strings.TrimPrefix, strings.HasSuffix, strings.TrimSuffix
HasPrefix(s, prefix) ==
    Len(prefix) <= Len(s) /\ SubSeq(s, 1, Len(prefix)) = prefix
TrimPrefix(s, prefix) ==
    IF HasPrefix(s, prefix) THEN SubSeq(s, Len(prefix) + 1, Len(s)) ELSE s
HasSuffix(s, suffix) ==
    Len(suffix) <= Len(s) /\ SubSeq(s, Len(s) - Len(suffix) + 1, Len(s)) = suffix
TrimSuffix(s, suffix) ==
    IF HasSuffix(s, suffix) THEN SubSeq(s, 1, Len(s) - Len(suffix)) ELSE s

\* strings.Contains
Contains(s, substr) ==
    \E i \in 0..(Len(s) - Len(substr)) : SubSeq(s, i + 1, i + Len(substr)) = substr

\* the position of the last c in s, 0 when there is none
LastIndex(s, c) ==
    IF \E i \in 1..Len(s) : s[i] = c
    THEN CHOOSE i \in 1..Len(s) : s[i] = c /\ \A j \in (i + 1)..Len(s) : s[j] # c
    ELSE 0

\* filepath.Dir, for the clean slash-separated paths a diff header carries
Dir(path) ==
    LET i == LastIndex(path, "/")
    IN  IF i = 0 THEN <<".">>
        ELSE IF i = 1 THEN <<"/">>
        ELSE SubSeq(path, 1, i - 1)

\* filepath.Base, for the same paths
Base(path) ==
    IF path = <<>> THEN <<".">>
    ELSE SubSeq(path, LastIndex(path, "/") + 1, Len(path))

\* filepath.Ext: from the last dot of the last element
Ext(path) ==
    LET dot == LastIndex(path, ".")
    IN  IF dot > LastIndex(path, "/") THEN SubSeq(path, dot, Len(path)) ELSE <<>>

\* strings.Split(s, sep) for a one-character separator
RECURSIVE Split(_, _)
Split(s, sep) ==
    IF \E i \in 1..Len(s) : s[i] = sep
    THEN LET i == CHOOSE k \in 1..Len(s) : s[k] = sep /\ \A j \in 1..(k - 1) : s[j] # sep
         IN  <<SubSeq(s, 1, i - 1)>> \o Split(SubSeq(s, i + 1, Len(s)), sep)
    ELSE <<s>>

\* strings.Fields: the maximal runs of non-space characters
RECURSIVE Fields(_)
Fields(s) ==
    LET t == TrimLeft(s)
    IN  IF t = <<>> THEN <<>>
        ELSE LET n == IF \E i \in 1..Len(t) : IsSpace(t[i])
                      THEN (CHOOSE i \in 1..Len(t) :
                                IsSpace(t[i]) /\ \A j \in 1..(i - 1) : ~IsSpace(t[j])) - 1
                      ELSE Len(t)
             IN  <<SubSeq(t, 1, n)>> \o Fields(SubSeq(t, n + 1, Len(t)))

\* strings.Trim(s, cutset)
RECURSIVE Trim(_, _)
Trim(s, cutset) ==
    IF s # <<>> /\ s[1] \in cutset THEN Trim(Tail(s), cutset)
    ELSE IF s # <<>> /\ s[Len(s)] \in cutset THEN Trim(SubSeq(s, 1, Len(s) - 1), cutset)
    ELSE s

\* line 806
Punctuation == {"(", ")", "{", "}", "[", "]", ".", ",", ";", ":"}

\* line 902-911
commonWords ==
    {
      <<"t", "h", "e">>, <<"a", "n", "d">>, <<"f", "o", "r">>, <<"a", "r", "e">>,
      <<"b", "u", "t">>, <<"n", "o", "t">>, <<"y", "o", "u">>, <<"a", "l", "l">>,
      <<"c", "a", "n">>, <<"h", "a", "d">>, <<"h", "e", "r">>, <<"w", "a", "s">>,
      <<"o", "n", "e">>, <<"o", "u", "r">>, <<"o", "u", "t">>, <<"d", "a", "y">>,
      <<"g", "e", "t">>, <<"h", "a", "s">>, <<"h", "i", "m">>, <<"h", "i", "s">>,
      <<"h", "o", "w">>, <<"i", "t", "s">>, <<"n", "e", "w">>, <<"n", "o", "w">>,
      <<"o", "l", "d">>, <<"s", "e", "e">>, <<"t", "w", "o">>, <<"w", "h", "o">>,
      <<"b", "o", "y">>, <<"d", "i", "d">>, <<"m", "a", "y">>, <<"p", "u", "t">>,
      <<"s", "a", "y">>, <<"s", "h", "e">>, <<"t", "o", "o">>, <<"u", "s", "e">>,
      <<"v", "a", "r">>, <<"n", "i", "l">>, <<"e", "r", "r">>, <<"i", "n", "t">>
    }

\* line 901
isCommonWord(word) == ToLower(word) \in commonWords

\* line 795-816
lineKeywords(line) ==
    IF HasPrefix(line, <<"+">>) \/ HasPrefix(line, <<"-">>)
    THEN LET content == TrimPrefix(TrimPrefix(line, <<"+">>), <<"-">>)
             words == Fields(content)
             trimmed == [i \in 1..Len(words) |-> Trim(words[i], Punctuation)]
         IN  {ToLower(trimmed[i]) : i \in {k \in 1..Len(words) :
                  Len(trimmed[k]) > 3 /\ ~isCommonWord(trimmed[k])}}
    ELSE {}

hunkKeywords(hunk) ==
    LET lines == Split(hunk.Content, "\n")
    IN  UNION {lineKeywords(lines[i]) : i \in 1..Len(lines)}

extractKeywords(hunks) == UNION {hunkKeywords(hunks[i]) : i \in 1..Len(hunks)}

\* a variant without the test of the directories at line 744-746
pathPairScoreWithoutDir(f1, f2) ==
    IF f1 = f2 THEN Float(1, 1)
    ELSE IF \/ Contains(f1, TrimSuffix(Base(f2), Ext(f2)))
            \/ Contains(f2, TrimSuffix(Base(f1), Ext(f1)))
         THEN Float(1, 2)
    ELSE Float(0, 1)

\* line 740-751: the value the loop body returns for one pair, 0 when it returns none
pathPairScore(f1, f2) ==
    IF f1 = f2 THEN Float(1, 1)
    ELSE IF Dir(f1) = Dir(f2) THEN Float(7, 10)
    ELSE IF \/ Contains(f1, TrimSuffix(Base(f2), Ext(f2)))
            \/ Contains(f2, TrimSuffix(Base(f1), Ext(f1)))
         THEN Float(1, 2)
    ELSE Float(0, 1)

\* line 738-755: the pairs in loop order from the k-th on, the first return wins
RECURSIVE firstPathScore(_, _, _)
firstPathScore(files1, files2, k) ==
    IF k >= Len(files1) * Len(files2) THEN Float(0, 1)
    ELSE LET score == pathPairScore(files1[(k \div Len(files2)) + 1],
                                    files2[(k % Len(files2)) + 1])
         IN  IF score # Float(0, 1) THEN score
             ELSE firstPathScore(files1, files2, k + 1)

\* line 732
calculateFilePathSimilarity(files1, files2) ==
    IF Len(files1) = 0 \/ Len(files2) = 0 THEN Float(0, 1)
    ELSE firstPathScore(files1, files2, 0)

\* line 758
calculateFunctionSimilarity(funcs1, funcs2) ==
    IF Len(funcs1) = 0 \/ Len(funcs2) = 0 THEN Float(0, 1)
    ELSE LET common == Cardinality({i \in 1..Len(funcs1) :
                           \E j \in 1..Len(funcs2) : funcs1[i] = funcs2[j]})
         IN  Float(common, max(Len(funcs1), Len(funcs2)))

\* a variant of line 792 that divides by the first argument's keyword count
calculateContentSimilarityOverFirst(hunks1, hunks2) ==
    LET keywords1 == extractKeywords(hunks1)
        keywords2 == extractKeywords(hunks2)
    IN  IF keywords1 = {} \/ keywords2 = {} THEN Float(0, 1)
        ELSE Float(Cardinality(keywords1 \cap keywords2), Cardinality(keywords1))

\* line 776
calculateContentSimilarity(hunks1, hunks2) ==
    LET keywords1 == extractKeywords(hunks1)
        keywords2 == extractKeywords(hunks2)
    IN  IF keywords1 = {} \/ keywords2 = {} THEN Float(0, 1)
        ELSE Float(Cardinality(keywords1 \cap keywords2),
                   max(Cardinality(keywords1), Cardinality(keywords2)))

\* line 671
calculateSimilarity(a, b) ==
    LET fileScore == calculateFilePathSimilarity(a.Files, b.Files)
        funcScore == calculateFunctionSimilarity(a.Functions, b.Functions)
        contentScore == calculateContentSimilarity(a.Hunks, b.Hunks)
    IN  FloatAdd(FloatAdd(FloatMul(fileScore, Float(3, 10)),
                          FloatMul(funcScore, Float(4, 10))),
                 FloatMul(contentScore, Float(3, 10)))

\* line 648
calculateSimilarities(cs) ==
    [i \in 1..Len(cs) |-> [j \in 1..Len(cs) |->
        IF i = j THEN Float(1, 1)
        ELSE IF i < j THEN calculateSimilarity(cs[i], cs[j])
        ELSE calculateSimilarity(cs[j], cs[i])]]

(***************************************************************************)
(* The Changes the argument of ClusterChanges is drawn from: one Change    *)
(* per file, as AnalyzeDiff builds them.                                   *)
(***************************************************************************)
AuthChange ==
    [Files |-> <<<<"a", "/", "a", "u", "t", "h", ".", "g", "o">>>>,
     Functions |-> <<"Login">>,
     Hunks |-> <<[File |-> <<"a", "/", "a", "u", "t", "h", ".", "g", "o">>,
                  StartLine |-> 1,
                  Content |-> <<"+", "f", "u", "n", "c", " ", "L", "o", "g", "i", "n", "(",
                                ")", " ", "{", "\n", "+", "\t", "r", "e", "t", "u", "r", "n",
                                " ", "t", "o", "k", "e", "n", "\n", " ", "}", "\n">>]>>]

AuthTestChange ==
    [Files |-> <<<<"a", "/", "a", "u", "t", "h", "_", "t", "e", "s", "t", ".", "g", "o">>>>,
     Functions |-> <<"TestLogin">>,
     Hunks |-> <<[File |-> <<"a", "/", "a", "u", "t", "h", "_", "t", "e", "s", "t", ".", "g", "o">>,
                  StartLine |-> 1,
                  Content |-> <<"+", "f", "u", "n", "c", " ", "T", "e", "s", "t", "L", "o",
                                "g", "i", "n", "(", ")", " ", "{", "\n", "+", "\t", "L", "o",
                                "g", "i", "n", "(", ")", "\n">>]>>]

ReadmeChange ==
    [Files |-> <<<<"R", "E", "A", "D", "M", "E", ".", "m", "d">>>>,
     Functions |-> <<>>,
     Hunks |-> <<[File |-> <<"R", "E", "A", "D", "M", "E", ".", "m", "d">>,
                  StartLine |-> 1,
                  Content |-> <<"+", "I", "n", "s", "t", "a", "l", "l", " ", "g", "i", "t",
                                "m", "i", "n", "d", "\n", "-", "T", "h", "e", " ", "o", "l",
                                "d", " ", "t", "e", "x", "t", "\n">>]>>]

OtherAuthChange ==
    [Files |-> <<<<"b", "/", "a", "u", "t", "h", ".", "g", "o">>>>,
     Functions |-> <<"Login">>,
     Hunks |-> <<[File |-> <<"b", "/", "a", "u", "t", "h", ".", "g", "o">>,
                  StartLine |-> 4,
                  Content |-> <<"-", "f", "u", "n", "c", " ", "L", "o", "g", "i", "n", "(",
                                ")", " ", "{", "\n">>]>>]

UserChange ==
    [Files |-> <<<<"b", "/", "u", "s", "e", "r", ".", "g", "o">>>>,
     Functions |-> <<"Login">>,
     Hunks |-> <<[File |-> <<"b", "/", "u", "s", "e", "r", ".", "g", "o">>,
                  StartLine |-> 2,
                  Content |-> <<"-", "f", "u", "n", "c", " ", "L", "o", "g", "i", "n", "(",
                                ")", " ", "{", "\n">>]>>]

ChangeUniverse == {AuthChange, AuthTestChange, ReadmeChange, OtherAuthChange, UserChange}

ChangeLists == UNION {[1..n -> ChangeUniverse] : n \in 0..MaxChanges}

\* thresholds inside and outside [0, 1]
Thresholds ==
    {Float(0, 1), Float(1, 2), Float(7, 10), Float(1, 1), Float(11, 10), Float(-1, 10)}

(***************************************************************************)
(* ClusterChanges (line 504).                                              *)
(***************************************************************************)
\* the variables of ExecuteMultiCommit, which ClusterChanges leaves alone
executing == <<proposals, promptUser, deletions, staged0, repo, pc, cur, aborting,
               ret, cause, todo, tempCommitHash, response, result, err, restores,
               skipped, faults, processing>>

ExecutingIdle ==
    /\ proposals = <<>>
    /\ promptUser = FALSE
    /\ staged0 = {}
    /\ deletions = {}
    /\ repo = InitRepo({})
    /\ pc = "off"
    /\ cur = 0
    /\ aborting = FALSE
    /\ ret = Nil
    /\ cause = Nil
    /\ todo = {}
    /\ tempCommitHash = 0
    /\ response = <<>>
    /\ result = "running"
    /\ err = Nil
    /\ restores = 0
    /\ skipped = {}
    /\ faults = 0

InitCluster ==
    /\ ExecutingIdle
    /\ ProcessingIdle
    /\ changes \in ChangeLists
    /\ multiCommit \in [Enabled : BOOLEAN,
                        MaxClusters : 0..MaxClusterCap,
                        SimilarityThreshold : Thresholds]
    /\ similarities = <<>>
    /\ clusters = <<>>
    /\ used = <<>>
    /\ seed = 0
    /\ merges = 0
    /\ cpc = "start"

\* line 505-507
ClusterSingle ==
    /\ cpc = "start"
    /\ ~multiCommit.Enabled \/ Len(changes) <= 1
    /\ clusters' = <<[Changes |-> changes, Score |-> Float(1, 1)]>>
    /\ cpc' = "done"
    /\ UNCHANGED <<executing, changes, multiCommit, similarities, used, seed, merges>>

\* line 510, and the entry of performClustering (line 691-695)
CalculateSimilarities ==
    /\ cpc = "start"
    /\ multiCommit.Enabled /\ Len(changes) > 1
    /\ similarities' = calculateSimilarities(changes)
    /\ clusters' = <<>>
    /\ used' = [i \in 1..Len(changes) |-> FALSE]
    /\ seed' = 1
    /\ cpc' = "clustering"
    /\ UNCHANGED <<executing, changes, multiCommit, merges>>

\* line 698-700
SkipUsed ==
    /\ cpc = "clustering"
    /\ seed <= Len(changes)
    /\ used[seed]
    /\ seed' = seed + 1
    /\ UNCHANGED <<executing, changes, multiCommit, similarities, clusters, used,
                   merges, cpc>>

\* a variant of the test at line 710 that takes a change another cluster holds
AcceptedEvenIfUsed(i) ==
    {j \in (i + 1)..Len(changes) :
        FloatGeq(similarities[i][j], multiCommit.SimilarityThreshold)}

\* a variant of the test at line 710 that accepts the scores up to the threshold
AcceptedUpToThreshold(i) ==
    {j \in (i + 1)..Len(changes) :
        ~used[j] /\ FloatGeq(multiCommit.SimilarityThreshold, similarities[i][j])}

\* a variant of the test at line 710 with > in the place of >=
AcceptedAboveThreshold(i) ==
    {j \in (i + 1)..Len(changes) :
        /\ ~used[j]
        /\ FloatGeq(similarities[i][j], multiCommit.SimilarityThreshold)
        /\ similarities[i][j] # multiCommit.SimilarityThreshold}

\* a variant of the test at line 710 that also accepts a change similar to a
\* member the scan has accepted before
AcceptedByAnyMember(i) ==
    {j \in (i + 1)..Len(changes) :
        /\ ~used[j]
        /\ \/ FloatGeq(similarities[i][j], multiCommit.SimilarityThreshold)
           \/ \E k \in (i + 1)..(j - 1) :
                 /\ ~used[k]
                 /\ FloatGeq(similarities[i][k], multiCommit.SimilarityThreshold)
                 /\ FloatGeq(similarities[k][j], multiCommit.SimilarityThreshold)}

\* line 709-710: the changes the scan of seed i accepts
Accepted(i) ==
    {j \in (i + 1)..Len(changes) :
        ~used[j] /\ FloatGeq(similarities[i][j], multiCommit.SimilarityThreshold)}

\* line 711-712, for the accepted changes from j on in scan order
RECURSIVE Fold(_, _, _, _)
Fold(cluster, i, j, accepted) ==
    IF j > Len(changes) THEN cluster
    ELSE IF j \in accepted
         THEN Fold([Changes |-> Append(cluster.Changes, changes[j]),
                    Score |-> FloatHalf(FloatAdd(cluster.Score, similarities[i][j]))],
                   i, j + 1, accepted)
    ELSE Fold(cluster, i, j + 1, accepted)

\* line 702-718
OpenCluster ==
    /\ cpc = "clustering"
    /\ seed <= Len(changes)
    /\ ~used[seed]
    /\ LET accepted == Accepted(seed)
           cluster == Fold([Changes |-> <<changes[seed]>>, Score |-> Float(1, 1)],
                           seed, seed + 1, accepted)
       IN  /\ clusters' = Append(clusters, cluster)
           /\ used' = [j \in 1..Len(changes) |-> used[j] \/ j = seed \/ j \in accepted]
    /\ seed' = seed + 1
    /\ UNCHANGED <<executing, changes, multiCommit, similarities, merges, cpc>>

\* line 697 and 721: the loop of performClustering ends
ClusteringDone ==
    /\ cpc = "clustering"
    /\ seed > Len(changes)
    /\ cpc' = "limit"
    /\ UNCHANGED <<executing, changes, multiCommit, similarities, clusters, used,
                   seed, merges>>

\* line 516 and 819-820: nothing to merge
WithinLimit ==
    /\ cpc = "limit"
    /\ Len(clusters) <= multiCommit.MaxClusters
    /\ cpc' = "done"
    /\ UNCHANGED <<executing, changes, multiCommit, similarities, clusters, used,
                   seed, merges>>

\* a variant of the search with <= at line 832: the last of the smallest pairs
MinPairLatest(cs) ==
    LET Size(p) == Len(cs[p[1]].Changes) + Len(cs[p[2]].Changes)
        Pairs == {p \in (1..Len(cs)) \X (1..Len(cs)) : p[1] < p[2]}
        Before(p, q) == p[1] < q[1] \/ (p[1] = q[1] /\ p[2] < q[2])
    IN  CHOOSE p \in Pairs :
            \A q \in Pairs \ {p} : Size(p) < Size(q) \/ (Size(p) = Size(q) /\ Before(q, p))

\* line 826-837: the pair the search ends with
MinPair(cs) ==
    LET Size(p) == Len(cs[p[1]].Changes) + Len(cs[p[2]].Changes)
        Pairs == {p \in (1..Len(cs)) \X (1..Len(cs)) : p[1] < p[2]}
        Before(p, q) == p[1] < q[1] \/ (p[1] = q[1] /\ p[2] < q[2])
    IN  CHOOSE p \in Pairs :
            \A q \in Pairs \ {p} : Size(p) < Size(q) \/ (Size(p) = Size(q) /\ Before(p, q))

\* line 847-853: the clusters but those at p and q
RECURSIVE Others(_, _, _, _)
Others(cs, p, q, i) ==
    IF i > Len(cs) THEN <<>>
    ELSE (IF i # p /\ i # q THEN <<cs[i]>> ELSE <<>>) \o Others(cs, p, q, i + 1)

\* a merge that keeps the changes of the first cluster of the pair only
MergedDroppingSecond(cs) ==
    LET p == MinPair(cs)
        merged == [Changes |-> cs[p[1]].Changes,
                   Score |-> FloatHalf(FloatAdd(cs[p[1]].Score, cs[p[2]].Score))]
    IN  Append(Others(cs, p[1], p[2], 1), merged)

\* line 840-854: one iteration of the loop at line 824
Merged(cs) ==
    LET p == MinPair(cs)
        merged == [Changes |-> cs[p[1]].Changes \o cs[p[2]].Changes,
                   Score |-> FloatHalf(FloatAdd(cs[p[1]].Score, cs[p[2]].Score))]
    IN  Append(Others(cs, p[1], p[2], 1), merged)

\* line 516-517 and 824-855
MergeStep ==
    /\ cpc \in {"limit", "merge"}
    /\ Len(clusters) > multiCommit.MaxClusters
    /\ Len(clusters) >= 2
    /\ clusters' = Merged(clusters)
    /\ merges' = merges + 1
    /\ cpc' = "merge"
    /\ UNCHANGED <<executing, changes, multiCommit, similarities, used, seed>>

\* line 826-827: clusters[1] of a single cluster is out of range
MergePanic ==
    /\ cpc \in {"limit", "merge"}
    /\ Len(clusters) > multiCommit.MaxClusters
    /\ Len(clusters) < 2
    /\ cpc' = "panic"
    /\ UNCHANGED <<executing, changes, multiCommit, similarities, clusters, used,
                   seed, merges>>

\* line 824 and 857: the loop of mergeClusters ends
MergeDone ==
    /\ cpc = "merge"
    /\ Len(clusters) <= multiCommit.MaxClusters
    /\ cpc' = "done"
    /\ UNCHANGED <<executing, changes, multiCommit, similarities, clusters, used,
                   seed, merges>>

NextCluster ==
    \/ ClusterSingle
    \/ CalculateSimilarities
    \/ SkipUsed
    \/ OpenCluster
    \/ ClusteringDone
    \/ WithinLimit
    \/ MergeStep
    \/ MergePanic
    \/ MergeDone

SpecCluster == InitCluster /\ [][NextCluster]_vars

(***************************************************************************)
(* Part III models ProcessStagedChanges (line 35): the staged diff is      *)
(* parsed into Hunks (parseDiffHunks, line 524), the Hunks of one file     *)
(* make one Change (AnalyzeDiff, line 475), the Changes are clustered as   *)
(* in Part II and every cluster makes one CommitProposal.                  *)
(***************************************************************************)
Digits == <<"0", "1", "2", "3", "4", "5", "6", "7", "8", "9">>

IsDigit(c) == \E i \in DOMAIN Digits : Digits[i] = c

\* line 725-730: fmt.Sscanf(s, "%d", &result) of a string of digits
RECURSIVE parseInt(_)
parseInt(s) ==
    IF s = <<>> THEN 0
    ELSE 10 * parseInt(SubSeq(s, 1, Len(s) - 1))
         + (CHOOSE i \in DOMAIN Digits : Digits[i] = s[Len(s)]) - 1

\* line 545-546: re.FindStringSubmatch(line) for the regular expression
\* `@@ -(\d+),?\d* \+(\d+),?\d* @@`, without the whole match: the submatches 1
\* and 2 of the leftmost match, <<>> when there is none
FindHunkHeader(line) ==
    LET \* the length of the longest run of digits that starts at position p
        RECURSIVE DigitRun(_)
        DigitRun(p) == IF p <= Len(line) /\ IsDigit(line[p]) THEN 1 + DigitRun(p + 1) ELSE 0
        \* the line holds lit at position p
        LitAt(p, lit) ==
            p + Len(lit) - 1 <= Len(line) /\ SubSeq(line, p, p + Len(lit) - 1) = lit
        \* the position after `(\d+),?\d*` matched at p, 0 when it does not match
        AfterRange(p) ==
            LET n == DigitRun(p)
                q == IF LitAt(p + n, <<",">>) THEN p + n + 1 ELSE p + n
            IN  IF n = 0 THEN 0 ELSE q + DigitRun(q)
        \* the submatches of the match at position p, <<>> when there is none
        HunkHeaderAt(p) ==
            IF ~LitAt(p, <<"@", "@", " ", "-">>) THEN <<>>
            ELSE LET a == p + 4
                     b == AfterRange(a)
                 IN  IF b = 0 \/ ~LitAt(b, <<" ", "+">>) THEN <<>>
                     ELSE LET c == b + 2
                              d == AfterRange(c)
                          IN  IF d = 0 \/ ~LitAt(d, <<" ", "@", "@">>) THEN <<>>
                              ELSE <<SubSeq(line, a, a + DigitRun(a) - 1),
                                     SubSeq(line, c, c + DigitRun(c) - 1)>>
        at == {p \in 1..Len(line) : HunkHeaderAt(p) # <<>>}
    IN  IF at = {} THEN <<>>
        ELSE HunkHeaderAt(CHOOSE p \in at : \A q \in at : p <= q)

\* line 531-576: one iteration of the loop, on the parser's state
\* [currentFile, currentHunk, hunks]; currentHunk is <<>> for nil and <<h>>
\* for a pointer to the Hunk h
parseLine(st, line) ==
    LET \* line 562-574
        nextType(type) ==
            IF HasPrefix(line, <<"+">>)
            THEN IF type = "" THEN "add" ELSE IF type = "remove" THEN "modify" ELSE type
            ELSE IF HasPrefix(line, <<"-">>)
            THEN IF type = "" THEN "remove" ELSE IF type = "add" THEN "modify" ELSE type
            ELSE type
    IN
    IF HasPrefix(line, <<"+", "+", "+", " ", "b", "/">>)
    THEN [st EXCEPT !.currentFile = TrimPrefix(line, <<"+", "+", "+", " ", "b", "/">>)]
    ELSE IF HasPrefix(line, <<"@", "@">>)
    THEN LET closed == IF st.currentHunk # <<>>
                       THEN [st EXCEPT !.hunks = Append(@, st.currentHunk[1])]
                       ELSE st
             matches == FindHunkHeader(line)
         IN  IF matches # <<>>
             THEN [closed EXCEPT !.currentHunk =
                      <<[File |-> st.currentFile,
                         StartLine |-> parseInt(matches[2]),
                         EndLine |-> 0,
                         Content |-> <<>>,
                         Type |-> ""]>>]
             ELSE closed
    ELSE IF /\ st.currentHunk # <<>>
            /\ \/ HasPrefix(line, <<"+">>)
               \/ HasPrefix(line, <<"-">>)
               \/ HasPrefix(line, <<" ">>)
    THEN [st EXCEPT !.currentHunk[1] =
             [@ EXCEPT !.Content = @ \o line \o <<"\n">>,
                       !.Type = nextType(@)]]
    ELSE st

\* line 524-583
parseDiffHunks(text) ==
    LET lines == Split(text, "\n")
        RECURSIVE parseLines(_, _)
        parseLines(st, i) ==
            IF i > Len(lines) THEN st ELSE parseLines(parseLine(st, lines[i]), i + 1)
        st == parseLines([currentFile |-> <<>>, currentHunk |-> <<>>, hunks |-> <<>>], 1)
    IN  IF st.currentHunk # <<>> THEN Append(st.hunks, st.currentHunk[1]) ELSE st.hunks

\* line 633-638: the submatch of `^func\s+(\w+)`, <<>> when there is no match
FuncName(content) ==
    LET IsWordChar(c) ==
            \/ IsDigit(c)
            \/ c = "_"
            \/ \E i \in DOMAIN Upper : Upper[i] = c \/ Lower[i] = c
        RECURSIVE WordRun(_)
        WordRun(p) == IF p <= Len(content) /\ IsWordChar(content[p]) THEN 1 + WordRun(p + 1) ELSE 0
        RECURSIVE SpaceRun(_)
        SpaceRun(p) == IF p <= Len(content) /\ IsSpace(content[p]) THEN 1 + SpaceRun(p + 1) ELSE 0
        a == 5 + SpaceRun(5)
    IN  IF HasPrefix(content, <<"f", "u", "n", "c">>) /\ a > 5 /\ WordRun(a) > 0
        THEN SubSeq(content, a, a + WordRun(a) - 1)
        ELSE <<>>

\* line 416
RECURSIVE unique(_)
unique(items) ==
    IF items = <<>> THEN <<>>
    ELSE LET rest == unique(SubSeq(items, 1, Len(items) - 1))
             last == items[Len(items)]
         IN  IF \E i \in 1..Len(rest) : rest[i] = last THEN rest ELSE Append(rest, last)

\* line 621-645
extractFunctionsFromHunks(hs) ==
    LET \* line 627-640: the function names of the lines from the i-th on
        RECURSIVE lineFunctions(_, _)
        lineFunctions(lines, i) ==
            IF i > Len(lines) THEN <<>>
            ELSE LET line == lines[i]
                     content == TrimSpace(TrimPrefix(TrimPrefix(line, <<"+">>), <<"-">>))
                     found == IF HasPrefix(line, <<"+">>) \/ HasPrefix(line, <<"-">>)
                              THEN FuncName(content) ELSE <<>>
                 IN  (IF found # <<>> THEN <<found>> ELSE <<>>) \o lineFunctions(lines, i + 1)
        \* line 624-642: the names found in the hunks from the i-th on
        RECURSIVE hunkFunctions(_)
        hunkFunctions(i) ==
            IF i > Len(hs) THEN <<>>
            ELSE lineFunctions(Split(hs[i].Content, "\n"), 1) \o hunkFunctions(i + 1)
    IN  unique(hunkFunctions(1))

\* line 596
analyzeFileChanges(file, hs) ==
    [Files |-> <<file>>,
     Functions |-> IF HasSuffix(file, <<".", "g", "o">>) THEN extractFunctionsFromHunks(hs) ELSE <<>>,
     Hunks |-> hs]

\* line 587: the map from each file to its hunks in their order
groupHunksByFile(hs) ==
    [file \in {hs[i].File : i \in 1..Len(hs)} |-> SelectSeq(hs, LAMBDA h : h.File = file)]

\* the orders in which a range loop may visit the keys of a map
Orders(S) ==
    {o \in [1..Cardinality(S) -> S] : \A i, j \in 1..Cardinality(S) : i # j => o[i] # o[j]}

\* line 475-501: the Changes for one order of the loop at line 485
AnalyzeDiff(text, order) ==
    LET fileHunks == groupHunksByFile(parseDiffHunks(text))
    IN  [i \in 1..Len(order) |-> analyzeFileChanges(order[i], fileHunks[order[i]])]

\* line 124: the files of a cluster, a set as the order of line 134 is any
extractFilesFromCluster(cluster) ==
    UNION {{cluster.Changes[i].Files[j] : j \in 1..Len(cluster.Changes[i].Files)} :
              i \in 1..Len(cluster.Changes)}

(***************************************************************************)
(* The staged changes and the text git diff --cached prints for them.  A   *)
(* section is the part of the diff for one file: its kind, its path and    *)
(* its hunks; a hunk has its header line, the first line of its new side   *)
(* and its lines, each a sign ("+", "-", " " or "\\" for git's remark on a  *)
(* missing final newline) and a text.                                      *)
(***************************************************************************)
\* the output of git diff --cached
Render(ss) ==
    LET RECURSIVE Join(_)
        Join(lines) == IF lines = <<>> THEN <<>> ELSE Head(lines) \o <<"\n">> \o Join(Tail(lines))
        RenderHunk(hunk) ==
            <<hunk.header>> \o [i \in 1..Len(hunk.lines) |-> <<hunk.lines[i][1]>> \o hunk.lines[i][2]]
        RECURSIVE RenderHunks(_)
        RenderHunks(hs) == IF hs = <<>> THEN <<>> ELSE RenderHunk(Head(hs)) \o RenderHunks(Tail(hs))
        RenderSection(s) ==
            <<<<"d", "i", "f", "f", " ", "-", "-", "g", "i", "t", " ", "a", "/">> \o s.path \o <<" ", "b", "/">> \o s.path>>
            \o (CASE s.kind = "modified" ->
                       <<<<"i", "n", "d", "e", "x", " ", "1", "a", "2", "b", "3", "c", "4", ".", ".", "5", "d", "6", "e", "7", "f", "8", " ", "1", "0", "0", "6", "4", "4">>, <<"-", "-", "-", " ", "a", "/">> \o s.path, <<"+", "+", "+", " ", "b", "/">> \o s.path>>
                  [] s.kind = "added" ->
                       <<<<"n", "e", "w", " ", "f", "i", "l", "e", " ", "m", "o", "d", "e", " ", "1", "0", "0", "6", "4", "4">>, <<"i", "n", "d", "e", "x", " ", "0", "0", "0", "0", "0", "0", "0", ".", ".", "5", "d", "6", "e", "7", "f", "8">>, <<"-", "-", "-", " ", "/", "d", "e", "v", "/", "n", "u", "l", "l">>, <<"+", "+", "+", " ", "b", "/">> \o s.path>>
                  [] s.kind = "deleted" ->
                       <<<<"d", "e", "l", "e", "t", "e", "d", " ", "f", "i", "l", "e", " ", "m", "o", "d", "e", " ", "1", "0", "0", "6", "4", "4">>, <<"i", "n", "d", "e", "x", " ", "1", "a", "2", "b", "3", "c", "4", ".", ".", "0", "0", "0", "0", "0", "0", "0">>, <<"-", "-", "-", " ", "a", "/">> \o s.path, <<"+", "+", "+", " ", "/", "d", "e", "v", "/", "n", "u", "l", "l">>>>
                  [] s.kind = "mode" ->
                       <<<<"o", "l", "d", " ", "m", "o", "d", "e", " ", "1", "0", "0", "6", "4", "4">>, <<"n", "e", "w", " ", "m", "o", "d", "e", " ", "1", "0", "0", "7", "5", "5">>>>)
            \o RenderHunks(s.hunks)
        RECURSIVE RenderSections(_)
        RenderSections(rest) ==
            IF rest = <<>> THEN <<>>
            ELSE RenderSection(Head(rest)) \o RenderSections(Tail(rest))
    IN  Join(RenderSections(ss))

SectionUniverse ==
    LET ModifiedAuth ==
            [kind |-> "modified",
             path |-> <<"a", "/", "a", "u", "t", "h", ".", "g", "o">>,
             hunks |-> <<[header |-> <<"@", "@", " ", "-", "1", ",", "3", " ", "+", "1", ",", "4", " ",
                             "@", "@">>,
                start |-> 1,
                lines |-> <<<<" ", <<"p", "a", "c", "k", "a", "g", "e", " ", "a">>>>,
                             <<"-", <<"f", "u", "n", "c", " ", "L", "o", "g", "i", "n", "(", ")", " ", "{">>>>,
                             <<"+", <<"f", "u", "n", "c", " ", "L", "o", "g", "i", "n", "(", "u", "s", "e", "r", ")", " ", "{">>>>,
                             <<"+", <<"\t", "r", "e", "t", "u", "r", "n", " ", "t", "o", "k", "e", "n">>>>>>]>>]
        ModifiedAuthTwice ==
            [kind |-> "modified",
             path |-> <<"a", "/", "a", "u", "t", "h", ".", "g", "o">>,
             hunks |-> <<[header |-> <<"@", "@", " ", "-", "1", ",", "2", " ", "+", "1", ",", "2", " ",
                             "@", "@">>,
                start |-> 1,
                lines |-> <<<<" ", <<"p", "a", "c", "k", "a", "g", "e", " ", "a">>>>,
                             <<"-", <<"f", "u", "n", "c", " ", "L", "o", "g", "i", "n", "(", ")", " ", "{">>>>,
                             <<"+", <<"f", "u", "n", "c", " ", "L", "o", "g", "i", "n", "(", "u", "s", "e", "r", ")", " ", "{">>>>>>],
               [header |-> <<"@", "@", " ", "-", "2", "0", " ", "+", "2", "0", ",", "2", " ",
                             "@", "@", " ", "f", "u", "n", "c", " ", "L", "o", "g", "o", "u",
                             "t", "(", ")", " ", "{">>,
                start |-> 20,
                lines |-> <<<<"-", <<"\t", "o", "l", "d", "(", ")">>>>,
                             <<"+", <<"\t", "f", "r", "e", "s", "h", "(", ")">>>>,
                             <<"+", <<"\t", "d", "o", "n", "e", "(", ")">>>>>>]>>]
        DeletedAuth ==
            [kind |-> "deleted",
             path |-> <<"a", "/", "a", "u", "t", "h", ".", "g", "o">>,
             hunks |-> <<[header |-> <<"@", "@", " ", "-", "1", ",", "2", " ", "+", "0", ",", "0", " ",
                             "@", "@">>,
                start |-> 0,
                lines |-> <<<<"-", <<"p", "a", "c", "k", "a", "g", "e", " ", "a">>>>,
                             <<"-", <<"f", "u", "n", "c", " ", "L", "o", "g", "i", "n", "(", ")", " ", "{">>>>>>]>>]
        AddedUser ==
            [kind |-> "added",
             path |-> <<"b", "/", "u", "s", "e", "r", ".", "g", "o">>,
             hunks |-> <<[header |-> <<"@", "@", " ", "-", "0", ",", "0", " ", "+", "1", ",", "2", " ",
                             "@", "@">>,
                start |-> 1,
                lines |-> <<<<"+", <<"p", "a", "c", "k", "a", "g", "e", " ", "b">>>>,
                             <<"+", <<"f", "u", "n", "c", " ", "L", "o", "g", "i", "n", "(", ")", " ", "{">>>>>>]>>]
        DeletedUser ==
            [kind |-> "deleted",
             path |-> <<"b", "/", "u", "s", "e", "r", ".", "g", "o">>,
             hunks |-> <<[header |-> <<"@", "@", " ", "-", "1", ",", "2", " ", "+", "0", ",", "0", " ",
                             "@", "@">>,
                start |-> 0,
                lines |-> <<<<"-", <<"p", "a", "c", "k", "a", "g", "e", " ", "b">>>>,
                             <<"-", <<"f", "u", "n", "c", " ", "L", "o", "g", "i", "n", "(", ")", " ", "{">>>>>>]>>]
        ModifiedReadme ==
            [kind |-> "modified",
             path |-> <<"R", "E", "A", "D", "M", "E", ".", "m", "d">>,
             hunks |-> <<[header |-> <<"@", "@", " ", "-", "3", ",", "2", " ", "+", "3", ",", "2", " ",
                             "@", "@">>,
                start |-> 3,
                lines |-> <<<<" ", <<"I", "n", "s", "t", "a", "l", "l">>>>,
                             <<"-", <<"T", "h", "e", " ", "o", "l", "d", " ", "t", "e", "x", "t">>>>,
                             <<"+", <<"I", "n", "s", "t", "a", "l", "l", " ", "g", "i", "t", "m", "i", "n", "d">>>>,
                             <<"\\", <<" ", "N", "o", " ", "n", "e", "w", "l", "i", "n", "e", " ", "a", "t", " ", "e", "n", "d", " ", "o", "f", " ", "f", "i", "l", "e">>>>>>]>>]
        ModeReadme ==
            [kind |-> "mode",
             path |-> <<"R", "E", "A", "D", "M", "E", ".", "m", "d">>,
             hunks |-> <<>>]
        ModifiedAuthBadHeader ==
            [kind |-> "modified",
             path |-> <<"a", "/", "a", "u", "t", "h", ".", "g", "o">>,
             hunks |-> <<[header |-> <<"@", "@", " ", "-", "1", " ", "+", "1", " ", "@", "@">>,
                start |-> 1,
                lines |-> <<<<"-", <<"f", "u", "n", "c", " ", "L", "o", "g", "i", "n", "(", ")", " ", "{">>>>,
                             <<"+", <<"f", "u", "n", "c", " ", "L", "o", "g", "i", "n", "(", "u", "s", "e", "r", ")", " ", "{">>>>>>],
               [header |-> <<"@", "@", " ", "-", "2", "0", ",", "0", " ", "2", "0", ",", "1", " ", "@", "@">>,
                start |-> 20,
                lines |-> <<<<"+", <<"\t", "d", "o", "n", "e", "(", ")">>>>>>]>>]
        ModifiedX ==
            [kind |-> "modified",
             path |-> <<"x">>,
             hunks |-> <<[header |-> <<"@", "@", " ", "-", "1", " ", "+", "1", ",", "2", " ", "@", "@">>,
                start |-> 1,
                lines |-> <<<<" ", <<"r", "u", "n">>>>,
                             <<"+", <<"l", "o", "g", "i", "n">>>>>>]>>]
        ModifiedY ==
            [kind |-> "modified",
             path |-> <<"y">>,
             hunks |-> <<[header |-> <<"@", "@", " ", "-", "7", " ", "+", "7", " ", "@", "@">>,
                start |-> 7,
                lines |-> <<<<"-", <<"l", "o", "g">>>>,
                             <<"+", <<"L", "o", "g", "i", "n", ".">>>>>>]>>]
    IN  {ModifiedAuth, ModifiedAuthTwice, DeletedAuth, AddedUser,
         DeletedUser, ModifiedReadme, ModeReadme, ModifiedAuthBadHeader,
         ModifiedX, ModifiedY}

\* the staged diffs: git prints the sections in the order of their paths
Diffs ==
    LET PathRank(s) ==
            CASE s.path = <<"R", "E", "A", "D", "M", "E", ".", "m", "d">> -> 1
              [] s.path = <<"a", "/", "a", "u", "t", "h", ".", "g", "o">> -> 2
              [] s.path = <<"b", "/", "u", "s", "e", "r", ".", "g", "o">> -> 3
              [] s.path = <<"x">> -> 4
              [] s.path = <<"y">> -> 5
    IN  UNION {{d \in [1..n -> SectionUniverse] :
                   \A i \in 1..(n - 1) : PathRank(d[i]) < PathRank(d[i + 1])} :
               n \in 0..MaxSections}

(***************************************************************************)
(* ProcessStagedChanges (line 35), with the configuration config.Load      *)
(* returned: nothing validates it.                                         *)
(***************************************************************************)
InitProcess ==
    /\ ExecutingIdle
    /\ sections \in Diffs
    /\ diff = <<>>
    /\ ppc = "start"
    /\ multiCommit \in [Enabled : BOOLEAN,
                        MaxClusters : 0..MaxClusterCap,
                        SimilarityThreshold : Thresholds]
    /\ changes = <<>>
    /\ similarities = <<>>
    /\ clusters = <<>>
    /\ used = <<>>
    /\ seed = 0
    /\ merges = 0
    /\ cpc = "off"

\* what a step of ProcessStagedChanges outside ClusterChanges leaves alone
untouched == <<promptUser, deletions, staged0, repo, pc, cur, aborting, ret, cause,
               todo, tempCommitHash, response, restores, skipped, sections,
               multiCommit, similarities, clusters, used, seed, merges>>

\* line 36-38
ReturnDisabled ==
    /\ ppc = "start"
    /\ ~multiCommit.Enabled
    /\ ppc' = "done"
    /\ result' = "ok"
    /\ proposals' = <<>>
    /\ UNCHANGED <<untouched, diff, changes, cpc, err, faults>>

\* line 41 and 114-120: git diff --cached
GetStagedDiff ==
    /\ ppc = "start"
    /\ multiCommit.Enabled
    /\ diff' = Render(sections)
    /\ ppc' = "diff"
    /\ UNCHANGED <<untouched, proposals, changes, cpc, err, result, faults>>

\* line 42-44
GetStagedDiffFails ==
    /\ ppc = "start"
    /\ multiCommit.Enabled
    /\ Fails(TRUE)
    /\ ppc' = "done"
    /\ result' = "error"
    /\ err' = Errorf("failed to get staged diff", ExecError("git diff --cached"))
    /\ UNCHANGED <<untouched, proposals, diff, changes, cpc>>

\* line 46-48
EmptyDiff ==
    /\ ppc = "diff"
    /\ TrimSpace(diff) = <<>>
    /\ ppc' = "done"
    /\ result' = "ok"
    /\ proposals' = <<>>
    /\ UNCHANGED <<untouched, diff, changes, cpc, err, faults>>

\* line 51 and 57: AnalyzeDiff, whose loop at line 485 visits the files in
\* any order, then the call of ClusterChanges
Analyze ==
    /\ ppc = "diff"
    /\ TrimSpace(diff) # <<>>
    /\ \E order \in Orders(DOMAIN groupHunksByFile(parseDiffHunks(diff))) :
          changes' = AnalyzeDiff(diff, order)
    /\ ppc' = "cluster"
    /\ cpc' = "start"
    /\ UNCHANGED <<untouched, proposals, diff, err, result, faults>>

\* line 62-73: one proposal for each cluster
Propose ==
    /\ ppc = "cluster"
    /\ cpc = "done"
    /\ proposals' = [i \in 1..Len(clusters) |->
                        [Files |-> extractFilesFromCluster(clusters[i]),
                         Changes |-> clusters[i].Changes]]
    /\ ppc' = "done"
    /\ result' = "ok"
    /\ UNCHANGED <<untouched, diff, changes, cpc, err, faults>>

NextProcess ==
    \/ ReturnDisabled
    \/ GetStagedDiff
    \/ GetStagedDiffFails
    \/ EmptyDiff
    \/ Analyze
    \/ Propose
    \/ NextCluster

SpecProcess == InitProcess /\ [][NextProcess]_vars

(***************************************************************************)
(* Properties of ClusterChanges.                                           *)
(***************************************************************************)
ValidConfig ==
    /\ FloatGeq(multiCommit.SimilarityThreshold, Float(0, 1))
    /\ FloatGeq(Float(1, 1), multiCommit.SimilarityThreshold)
    /\ multiCommit.MaxClusters >= 1

\* the Changes of all clusters, in cluster order
RECURSIVE Members(_)
Members(cs) == IF cs = <<>> THEN <<>> ELSE Head(cs).Changes \o Members(Tail(cs))

\* how many times x occurs in s
Count(s, x) == Cardinality({i \in 1..Len(s) : s[i] = x})

\* C5: for every list of Changes, threshold in [0,1] and maximum >= 1,
\* ClusterChanges returns (it does not panic) and the clusters it returns hold
\* every input Change exactly as often as the input does and no other Change;
\* the Changes are taken in every order.
C5_ClustersPartitionInput ==
    ValidConfig =>
        /\ cpc # "panic"
        /\ cpc = "done" =>
              \A c \in ChangeUniverse : Count(Members(clusters), c) = Count(changes, c)

\* a greedy cluster of two, then a merge-down, of three different Changes
C5_Witness ==
    /\ ValidConfig
    /\ cpc = "done"
    /\ multiCommit.Enabled
    /\ Len(changes) = 3
    /\ \A i, j \in 1..3 : i # j => changes[i] # changes[j]
    /\ \E j \in 2..3 : FloatGeq(similarities[1][j], multiCommit.SimilarityThreshold)
    /\ merges >= 1

(***************************************************************************)
(* Properties of ExecuteMultiCommit.                                       *)
(***************************************************************************)
\* the commit at position i of the branch
CommitAt(i) == repo.objects[repo.branch[i]]

\* the prompt was neither answered with a refusal nor failed to read
NotDeclined == result # "cancelled" /\ err # ExecError("read")

\* C1: with n >= 2 proposals of pairwise disjoint staged files, when no git
\* command fails and the user does not decline, the run always has a next
\* step until it is done, and when it is done it has returned nil, the branch
\* holds exactly n new commits, the i-th made for proposal i and changing
\* exactly the files of proposal i, and nothing is left staged.
C1_DisjointProposalsCommittedInOrder ==
    (/\ Len(proposals) >= 2
     /\ PairwiseDisjoint(proposals)
     /\ AllFiles(proposals) \subseteq staged0
     /\ faults = 0
     /\ NotDeclined)
    => /\ pc # "done" => ENABLED Step
       /\ pc = "done" =>
            /\ result = "ok"
            /\ Len(repo.branch) = Len(proposals)
            /\ \A i \in 1..Len(repo.branch) :
                  /\ CommitAt(i).proposal = i
                  /\ CommitAt(i).files = proposals[i]
            /\ StagedFiles(repo) = {}

C1_Witness ==
    /\ pc = "done"
    /\ faults = 0
    /\ result = "ok"
    /\ Len(proposals) = 3
    /\ Len(repo.branch) = 3
    /\ \A i \in 1..3 : CommitAt(i).files = proposals[i]

\* the files held by the gitmind stash entries
StashedFiles(r) ==
    UNION {r.stash[i].files : i \in {j \in 1..Len(r.stash) : r.stash[j].message = StashMessage}}

\* the files held by temporary commits whose hash a note records
RecordedFiles(r) ==
    UNION {r.objects[n.hash].files : n \in {m \in r.notes : m.prefix = NotePrefix}}

\* C2: in every state of a run, whatever has failed, every file staged at the
\* start has its change in a commit of the branch, in the index, in the work
\* tree, in the gitmind stash or in a temporary commit recorded by a note.
C2_StagedWorkNeverLost ==
    \A f \in staged0 :
        \/ f \in HeadTree(repo)
        \/ f \in repo.index
        \/ f \in repo.wt
        \/ f \in StashedFiles(repo)
        \/ f \in RecordedFiles(repo)

\* a run that failed and was aborted, a staged file being held by the stash only
C2_Witness ==
    /\ pc = "done"
    /\ result = "error"
    /\ faults >= 1
    /\ restores = 1
    /\ \E f \in staged0 :
          /\ f \in StashedFiles(repo)
          /\ f \notin HeadTree(repo) \cup repo.index \cup repo.wt

\* the proposals whose commit is on the branch, oldest first
Committed == [i \in 1..Len(repo.branch) |-> CommitAt(i).proposal]

\* the members of a set of numbers in increasing order
RECURSIVE Ascending(_)
Ascending(S) ==
    IF S = {} THEN <<>>
    ELSE LET m == CHOOSE x \in S : \A y \in S : x <= y
         IN  <<m>> \o Ascending(S \ {m})

\* C3: when ExecuteMultiCommit returns the error of a failure met while
\* proposal k was processed, the error names k and carries the cause, and the
\* commits created are exactly those of the proposals before k (one for each
\* proposal before k that was not skipped, in order, and no other).
C3_ErrorNamesProposalAfterEarlierCommits ==
    (pc = "done" /\ result = "error" /\ cur >= 1)
    => /\ cause # Nil
       /\ err = <<"failed to create commit", ToString(cur)>> \o cause
       /\ Committed = Ascending((1..(cur - 1)) \ skipped)

\* C4: when the processing of a proposal has failed, restoreChanges has been
\* called exactly once by the time the error is returned, and it is never
\* called more than once, nor at all before a failure.
C4_ExactlyOneRestoreOnAbort ==
    /\ (pc = "done" /\ result = "error" /\ cur >= 1) => restores = 1
    /\ restores <= 1
    /\ ~aborting => restores = 0

C4_Witness ==
    /\ pc = "done"
    /\ result = "error"
    /\ Len(proposals) = 3
    /\ cur = 2
    /\ Len(repo.branch) = 1
    /\ restores = 1

\* the live snapshots: the gitmind stash entries and the temporary-commit notes
LiveStashes(r) == {i \in 1..Len(r.stash) : r.stash[i].message = StashMessage}
LiveRecords(r) == {n \in r.notes : n.prefix = NotePrefix}

\* C6: at every point of a run at most one snapshot is live: never two gitmind
\* stash entries, never two temporary-commit notes, never one of each.
C6_AtMostOneLiveSnapshot ==
    Cardinality(LiveStashes(repo)) + Cardinality(LiveRecords(repo)) <= 1

\* the second stash of a run returns while the note of the first is still there
C6_Witness ==
    /\ pc = "stash_ret"
    /\ cur >= 1
    /\ Cardinality(LiveRecords(repo)) = 1

\* the processing of the current proposal has failed
Failed == aborting \/ (pc = "create_ret" /\ ret # Nil)

\* C7: once the processing of a proposal has failed, the run only restores
\* and returns: the loop does not advance, nothing is staged or committed for
\* a later proposal, and the branch keeps every commit it had.
C7_NoCommitAfterFailureNoneRemoved ==
    [][Failed =>
          /\ cur' = cur
          /\ pc' \in {"restore", "stash_pop", "cherry_pick", "notes_remove",
                      "restore_ret", "done"}
          /\ repo'.branch = repo.branch
          /\ repo'.objects = repo.objects
          /\ pc' = "done" => result' = "error"]_vars

C7_Witness ==
    /\ pc = "done"
    /\ result = "error"
    /\ Len(proposals) = 3
    /\ cur = 2
    /\ Committed = <<1>>
    /\ repo.index # {}

C9_NoEmptyCommit ==
    [][/\ \A i \in 1..Len(repo'.objects) : repo'.objects[i].files # {}
       /\ (pc = "stage" /\ todo = {} /\ StagedFiles(repo) = {} /\ faults' = faults)
            => /\ skipped' = skipped \cup {cur}
               /\ repo' = repo
               /\ pc' = "create_ret"
               /\ ret' = Nil
       /\ (pc = "create_ret" /\ ret = Nil /\ cur < Len(proposals))
            => (cur' = cur + 1 /\ pc' = "restore" /\ result' = "running")]_vars

C9_Witness ==
    /\ pc = "done"
    /\ result = "ok"
    /\ skipped = {1}
    /\ Committed = <<2>>

\* C10: whenever stashCurrentChanges returns nil, nothing is staged.
C10_SnapshotLeavesIndexClean ==
    (pc = "stash_ret" /\ ret = Nil) => StagedFiles(repo) = {}

\* what a manual recovery needs: the kind of the snapshot and its token, which
\* is the stash message of line 202 or the note of line 238
RecoveryTokens == {StashMessage, NotePrefix}

\* C11: when the restore of the abort (line 104) has itself failed, the error
\* ExecuteMultiCommit returns names the snapshot to recover by hand (its stash
\* message or its temporary-commit note), not only the failure of the proposal.
C11_FailedRestoreNamesSnapshot ==
    [][(pc = "restore_ret" /\ aborting /\ ret # Nil /\ pc' = "done")
          => /\ err' # CommitError(cur, cause)
             /\ \E i \in 1..Len(err') : err'[i] \in RecoveryTokens]_vars

\* the number of clusters performClustering returned
Clustered == Len(clusters) + merges

min(a, b) == IF a < b THEN a ELSE b

\* C12: with multi-commit enabled, for every maximum m and n clusters,
\* mergeClusters returns, with at most m and at least min(m, n) clusters, and
\* ClusterChanges never returns more than m clusters.
C12_AtMostMaxClusters ==
    multiCommit.Enabled =>
        /\ cpc # "panic"
        /\ cpc = "done" => Len(clusters) <= multiCommit.MaxClusters
        /\ (cpc = "done" /\ used # <<>>)
              => Len(clusters) >= min(multiCommit.MaxClusters, Clustered)

(***************************************************************************)
(* Properties of ProcessStagedChanges.                                     *)
(***************************************************************************)
Returned == ppc = "done" /\ result = "ok"

\* C13: for every non-empty staged diff and every configuration with
\* multi-commit enabled, every CommitProposal ProcessStagedChanges returns
\* has a non-empty file set.
C13_ProposalsNameFiles ==
    (Returned /\ multiCommit.Enabled /\ sections # <<>>)
        => \A i \in 1..Len(proposals) : proposals[i].Files # {}

\* C14: if the configured similarity threshold lies outside [0.0, 1.0] or the
\* configured maximum cluster count is not positive, the run fails with a
\* configuration error before clustering is applied (and before any snapshot,
\* stage or commit).
C14_InvalidConfigFailsFast ==
    (multiCommit.Enabled /\ ~ValidConfig)
        => /\ cpc = "off"
           /\ clusters = <<>>
           /\ ppc = "done" => (result = "error" /\ proposals = <<>>)

(***************************************************************************)
(* Properties of the similarity score.                                     *)
(***************************************************************************)
\* C15: for every Change a, calculateSimilarity(a, a) is 1.0 and so is the
\* diagonal entry of the matrix calculateSimilarities builds.
C15_SelfSimilarityIsOne ==
    similarities # <<>> =>
        \A i \in 1..Len(changes) :
            /\ calculateSimilarity(changes[i], changes[i]) = Float(1, 1)
            /\ similarities[i][i] = Float(1, 1)

InUnitInterval(x) == FloatGeq(x, Float(0, 1)) /\ FloatGeq(Float(1, 1), x)

\* C16: for all Changes a and b, as AnalyzeDiff builds them,
\* calculateSimilarity(a, b) = calculateSimilarity(b, a), each of the file,
\* symbol and content sub-scores is the same with its arguments swapped, and
\* the result lies in [0.0, 1.0].
C16_SimilarityIsSymmetric ==
    (cpc = "clustering" /\ seed = 1) =>
        \A i, j \in 1..Len(changes) :
            i < j =>
                LET a == changes[i]
                    b == changes[j]
                IN  /\ calculateFilePathSimilarity(a.Files, b.Files)
                         = calculateFilePathSimilarity(b.Files, a.Files)
                    /\ calculateFunctionSimilarity(a.Functions, b.Functions)
                         = calculateFunctionSimilarity(b.Functions, a.Functions)
                    /\ calculateContentSimilarity(a.Hunks, b.Hunks)
                         = calculateContentSimilarity(b.Hunks, a.Hunks)
                    /\ similarities[i][j] = calculateSimilarity(b, a)
                    /\ similarities[j][i] = similarities[i][j]
                    /\ InUnitInterval(similarities[i][j])

\* the matrix holds a score strictly between 0 and 1 for two Changes whose
\* file, symbol and content sub-scores are not all alike
C16_Witness ==
    /\ similarities # <<>>
    /\ \E i, j \in 1..Len(changes) :
          /\ i < j
          /\ similarities[i][j] = calculateSimilarity(changes[i], changes[j])
          /\ similarities[i][j] \notin {Float(0, 1), Float(1, 1)}
          /\ calculateContentSimilarity(changes[i].Hunks, changes[j].Hunks)
                \notin {Float(0, 1), Float(1, 1)}

(***************************************************************************)
(* Properties of ClusterChanges at the ends of the threshold's range.      *)
(***************************************************************************)
Distinct(cs) == \A i, j \in 1..Len(cs) : i # j => cs[i] # cs[j]

\* C17: with multi-commit enabled, similarity threshold 1.0 and a maximum
\* cluster count at least the number of Changes, ClusterChanges applied to
\* k >= 2 distinct Changes returns k clusters, each holding exactly one Change.
C17_ThresholdOneGivesSingletons ==
    (/\ cpc = "done"
     /\ multiCommit.Enabled
     /\ multiCommit.SimilarityThreshold = Float(1, 1)
     /\ multiCommit.MaxClusters >= Len(changes)
     /\ Len(changes) >= 2
     /\ Distinct(changes))
        => /\ Len(clusters) = Len(changes)
           /\ \A i \in 1..Len(clusters) : clusters[i].Changes = <<changes[i]>>

\* three distinct Changes, two of which a threshold of 0.7 would have put
\* together, come back as three clusters
C17_Witness ==
    /\ cpc = "done"
    /\ multiCommit.Enabled
    /\ multiCommit.SimilarityThreshold = Float(1, 1)
    /\ multiCommit.MaxClusters >= Len(changes)
    /\ Len(changes) = 3
    /\ Distinct(changes)
    /\ \E i, j \in 1..3 : i < j /\ FloatGeq(similarities[i][j], Float(7, 10))
    /\ Len(clusters) = 3

\* C18: with similarity threshold 0.0 and a maximum cluster count >= 1,
\* ClusterChanges applied to a non-empty list of Changes returns exactly one
\* cluster, and that cluster contains all the Changes.
C18_ThresholdZeroGivesOneCluster ==
    (/\ cpc = "done"
     /\ multiCommit.SimilarityThreshold = Float(0, 1)
     /\ multiCommit.MaxClusters >= 1
     /\ Len(changes) >= 1)
        => /\ Len(clusters) = 1
           /\ clusters[1].Changes = changes

\* three Changes, one of which has nothing in common with the first, come
\* back as one cluster from the scan of the first seed
C18_Witness ==
    /\ cpc = "done"
    /\ multiCommit.Enabled
    /\ multiCommit.SimilarityThreshold = Float(0, 1)
    /\ multiCommit.MaxClusters >= 1
    /\ Len(changes) = 3
    /\ \E j \in 2..3 : similarities[1][j] = Float(0, 1)
    /\ merges = 0
    /\ Len(clusters) = 1
    /\ clusters[1].Changes = changes

(***************************************************************************)
(* Properties of parseDiffHunks.                                           *)
(***************************************************************************)
\* the added and removed lines among the lines of a text
Changed(lines) ==
    SelectSeq(lines, LAMBDA line : HasPrefix(line, <<"+">>) \/ HasPrefix(line, <<"-">>))

\* the added and removed lines the Hunks hold, over all Hunks in their order
RECURSIVE ParsedLines(_)
ParsedLines(hs) ==
    IF hs = <<>> THEN <<>>
    ELSE Changed(Split(Head(hs).Content, "\n")) \o ParsedLines(Tail(hs))

\* the added and removed lines of the staged sections, in their order
RECURSIVE StagedLines(_)
StagedLines(ss) ==
    IF ss = <<>> THEN <<>>
    ELSE LET RECURSIVE OfHunks(_)
             OfHunks(hs) ==
                 IF hs = <<>> THEN <<>>
                 ELSE Changed([i \in 1..Len(Head(hs).lines) |->
                                  <<Head(hs).lines[i][1]>> \o Head(hs).lines[i][2]])
                      \o OfHunks(Tail(hs))
         IN  OfHunks(Head(ss).hunks) \o StagedLines(Tail(ss))

Occurrences(line, lines) == Cardinality({i \in 1..Len(lines) : lines[i] = line})

\* a diff of one or more files, each with one or more hunks
ValidDiff ==
    /\ sections # <<>>
    /\ \A i \in 1..Len(sections) :
          /\ sections[i].hunks # <<>>
          /\ \A k \in 1..Len(sections[i].hunks) :
                FindHunkHeader(sections[i].hunks[k].header) # <<>>

\* C19: for every valid unified diff, the added and removed lines in the
\* content of the Hunks parseDiffHunks returns are exactly the added and
\* removed lines of the diff: none is missing and none is extra.
C19_HunksHoldTheChangedLines ==
    (ppc = "diff" /\ ValidDiff) =>
        LET parsed == ParsedLines(parseDiffHunks(diff))
            staged == StagedLines(sections)
        IN  \A i \in 1..Len(parsed) + Len(staged) :
                LET line == (parsed \o staged)[i]
                IN  Occurrences(line, parsed) = Occurrences(line, staged)

(***************************************************************************)
(* Properties of the order of the steps of ExecuteMultiCommit.             *)
(***************************************************************************)
LiveSnapshots(r) == Cardinality(LiveStashes(r)) + Cardinality(LiveRecords(r))

\* C20: the steps of each proposal occur in the order Restore, unstage-all,
\* Stage, Commit; whenever further proposals remain after a proposal has been
\* processed, Snapshot is re-run on the remaining work before the next
\* proposal's Restore, so that this Restore re-materializes a live Snapshot;
\* Snapshot is not re-run after the last proposal.
C20_EachRestoreHasALiveSnapshot ==
    /\ (pc = "restore" /\ ~aborting /\ cur >= 2) => LiveSnapshots(repo) = 1
    /\ (pc = "stash" /\ cur >= 1) => cur < Len(proposals)

(***************************************************************************)
(* Properties of the temporary-commit fallback and of staging.             *)
(***************************************************************************)
\* C21: if the initial call of stashCurrentChanges fails (the stash fails and
\* a step of the temporary-commit fallback fails too), ExecuteMultiCommit
\* returns an error, no proposal is staged or committed, and the repository
\* is as it was before the call: the branch head is unchanged and the staged
\* work is still in the index.
C21_FailedSnapshotLeavesRepository ==
    (pc = "done" /\ cur = 0 /\ result = "error")
        => /\ Committed = <<>>
           /\ repo.branch = <<>>
           /\ repo.index = staged0

\* C22: whenever stashUsingTempBranch has returned success, the temporary
\* commit is recorded in a note on the head, and the restore that re-applies
\* it discards the record: the fallback never reports success while the
\* temporary commit is unrecorded.
C22_FallbackSuccessIsRecorded ==
    [][/\ (pc = "temp_notes" /\ pc' = "stash_ret" /\ ret' = Nil)
            => Cardinality(LiveRecords(repo')) = 1
       /\ (pc = "notes_remove" /\ pc' = "restore_ret" /\ ret' = Nil)
            => LiveRecords(repo') = {}]_vars

\* C23: while a proposal is staged, each step takes the next file and either
\* stages it (its deletion when it is absent on disk, its content otherwise)
\* or skips it; a failed staging never fails the proposal: the remaining
\* files are still staged and, if anything was staged, the commit is made.
C23_UnstageableFileIsSkipped ==
    [][pc = "stage" =>
          /\ ret' = Nil
          /\ ~aborting'
          /\ todo # {} =>
                /\ pc' = "stage"
                /\ todo' = todo \ {NextFile}
                /\ repo'.index \ {NextFile} = repo.index \ {NextFile}
                /\ faults' = faults => (NextFile \in repo'.index <=> NextFile \in repo.wt)
                /\ faults' # faults => repo' = repo
          /\ (todo = {} /\ StagedFiles(repo) # {}) => pc' = "commit"]_vars

\* a commit made for a proposal of two files holds one of them, a deletion,
\* after the staging of the other failed
C23_Witness ==
    \E i \in 1..Len(repo.branch) :
        LET commit == CommitAt(i)
        IN  /\ commit.proposal >= 1
            /\ Cardinality(proposals[commit.proposal]) = 2
            /\ Cardinality(commit.files) = 1
            /\ commit.files \subseteq deletions
            /\ faults = 1
            /\ skipped = {}

(***************************************************************************)
(* Properties of performClustering and mergeClusters.                      *)
(***************************************************************************)
\* the seed of the cluster Change j belongs to: the first seed before j that
\* j is similar enough to, j itself when there is none
RECURSIVE SeedOf(_)
SeedOf(j) ==
    LET takers == {i \in 1..(j - 1) :
                      /\ SeedOf(i) = i
                      /\ FloatGeq(similarities[i][j], multiCommit.SimilarityThreshold)}
    IN  IF takers = {} THEN j ELSE CHOOSE i \in takers : \A k \in takers : i <= k

\* the Changes whose seed is i, in input order
ClusterOf(i) ==
    LET members == SelectSeq([j \in 1..Len(changes) |-> j], LAMBDA j : SeedOf(j) = i)
    IN  [k \in 1..Len(members) |-> changes[members[k]]]

\* C24: performClustering puts Change j in the cluster seeded by Change i
\* (i < j) if and only if j is unassigned when the scan of seed i reaches it
\* and similarity(i, j) >= threshold; similarity to other members plays no
\* part, and every cluster's seed is its member of smallest input index.
C24_MembershipDecidedBySeed ==
    cpc = "limit" =>
        LET seeds == SelectSeq([j \in 1..Len(changes) |-> j], LAMBDA j : SeedOf(j) = j)
        IN  /\ Len(clusters) = Len(seeds)
            /\ \A k \in 1..Len(seeds) :
                  /\ clusters[k].Changes = ClusterOf(seeds[k])
                  /\ clusters[k].Changes[1] = changes[seeds[k]]

\* the third Change is similar enough to the second, a member of the first
\* cluster, but not to its seed, and is left out of it
C24_Witness ==
    /\ cpc = "limit"
    /\ Len(changes) = 3
    /\ FloatGeq(similarities[1][2], multiCommit.SimilarityThreshold)
    /\ FloatGeq(similarities[2][3], multiCommit.SimilarityThreshold)
    /\ ~FloatGeq(similarities[1][3], multiCommit.SimilarityThreshold)
    /\ Len(clusters) = 2
    /\ clusters[1].Changes = <<changes[1], changes[2]>>
    /\ clusters[2].Changes = <<changes[3]>>

\* the mean of the scores of the Changes from the j-th on whose seed is i
\* against that seed: their sum and their number
RECURSIVE AcceptedScores(_, _)
AcceptedScores(i, j) ==
    IF j > Len(changes) THEN [sum |-> Float(0, 1), m |-> 0]
    ELSE LET rest == AcceptedScores(i, j + 1)
         IN  IF SeedOf(j) = i
             THEN [sum |-> FloatAdd(rest.sum, similarities[i][j]), m |-> rest.m + 1]
             ELSE rest

\* C25: for every cluster of performClustering whose seed accepted m >= 1
\* further Changes with scores s1..sm against the seed, the cluster's score
\* is the arithmetic mean (s1 + ... + sm) / m.
C25_ScoreIsMeanOfAccepted ==
    (cpc = "limit" /\ ValidConfig) =>
        LET seeds == SelectSeq([j \in 1..Len(changes) |-> j], LAMBDA j : SeedOf(j) = j)
        IN  \A k \in 1..Len(clusters) :
                LET accepted == AcceptedScores(seeds[k], seeds[k] + 1)
                IN  accepted.m >= 1 =>
                        clusters[k].Score = FloatMul(accepted.sum, Float(1, accepted.m))

Shared(a, b) ==
    {a.Functions[i] : i \in 1..Len(a.Functions)} \cap {b.Functions[i] : i \in 1..Len(b.Functions)}

OnlyLogin(a) == extractKeywords(a.Hunks) = {<<"l", "o", "g", "i", "n">>}

RECURSIVE Owners(_)
Owners(ss) ==
    IF ss = <<>> THEN <<>>
    ELSE [i \in 1..Len(Head(ss).hunks) |-> Head(ss).path] \o Owners(Tail(ss))

\* C28: every Hunk parseDiffHunks returns is tagged with the file named by
\* the header of the section that holds the hunk, for modified, added and
\* deleted files alike, and groupHunksByFile yields one group for each file
\* that has a hunk.
C28_HunksTaggedWithTheirFile ==
    (ppc = "diff" /\ ValidDiff) =>
        LET hunks == parseDiffHunks(diff)
            owners == Owners(sections)
        IN  /\ [i \in 1..Len(hunks) |-> hunks[i].File] = owners
            /\ DOMAIN groupHunksByFile(hunks) = {owners[i] : i \in 1..Len(owners)}

\* the lines of a text that start a hunk, and those of them the parser can read
HeaderLines(text) == SelectSeq(Split(text, "\n"), LAMBDA line : HasPrefix(line, <<"@", "@">>))

Parsable(text) == SelectSeq(HeaderLines(text), LAMBDA line : FindHunkHeader(line) # <<>>)

\* C29: for every diff text parseDiffHunks returns, and a hunk-header line it
\* cannot parse opens no Hunk: the number of Hunks returned is at most the
\* number of hunk-header lines, and no Hunk is returned more than once (one
\* Hunk at most for every header line that can be parsed).
C29_UnparsableHeaderIsSkipped ==
    ppc = "diff" =>
        LET hunks == parseDiffHunks(diff)
        IN  /\ Len(hunks) <= Len(HeaderLines(diff))
            /\ Len(hunks) <= Len(Parsable(diff))

\* the files of the changes AnalyzeDiff extracted from the staged diff
ChangedFiles ==
    UNION {{changes[i].Files[j] : j \in 1..Len(changes[i].Files)} : i \in 1..Len(changes)}

\* C30: ProcessStagedChanges returns one CommitProposal for every final
\* cluster, in the order of the clusters and with the cluster's Changes; the
\* file sets of the proposals are pairwise disjoint and their union is the
\* set of the files of all Changes extracted from the staged diff.
C30_OneProposalPerCluster ==
    (ppc = "done" /\ cpc = "done") =>
        /\ Len(proposals) = Len(clusters)
        /\ \A i \in 1..Len(proposals) : proposals[i].Changes = clusters[i].Changes
        /\ \A i, j \in 1..Len(proposals) :
              i # j => proposals[i].Files \cap proposals[j].Files = {}
        /\ UNION {proposals[i].Files : i \in 1..Len(proposals)} = ChangedFiles

\* two files staged and proposed for two commits, one cluster each
C30_Witness ==
    /\ ppc = "done"
    /\ cpc = "done"
    /\ Len(clusters) = 2
    /\ Len(proposals) = 2
    /\ proposals[1].Files # {}
    /\ proposals[2].Files # {}
    /\ proposals[1].Files # proposals[2].Files
============================================================================
